---- MODULE Spec2Model ----
(***************************************************************************)
(* Model of marginfi-meteora-farmer.                                       *)
(*                                                                         *)
(*   SpecTx    - the transaction execution pipeline: bot::start calling    *)
(*               force_send_instructions, which calls                      *)
(*               build_signed_transaction and send_and_confirm_transaction *)
(*   SpecBank  - the functions of one MarginfiBank: get_borrow_rate,       *)
(*               get_max_deposit_amount, and get_best_bank_for_borrow      *)
(*               over the banks of the three mints that can be borrowed    *)
(*   SpecAccount - MarginfiAccountWithBanks: new, update_banks,            *)
(*               update_balances, deposit, borrow and                      *)
(*               get_total_weighted_amount over I80F48 amounts             *)
(*   SpecCache - main's start-up, the oracle subscriptions, the update     *)
(*               channel, the cache writer task (listen_to_updates) and    *)
(*               the strategy's first risk calculation reading the cache   *)
(*   SpecMain  - SpecCache with the two other ways a task of main's        *)
(*               select! finishes: the websocket task ends, the strategy   *)
(*               returns an error                                          *)
(***************************************************************************)
EXTENDS Integers, Sequences, FiniteSets, TLC

(* ---------------------------------------------------------------------- *)
(* Program constants                                                       *)
(* ---------------------------------------------------------------------- *)
POLL_TIMEOUT == 2

TX_VALIDITY_DURATION == 40

(* ---------------------------------------------------------------------- *)
(* Bounds of the model                                                     *)
(* ---------------------------------------------------------------------- *)
\* the retry counter of force_send_instructions is unbounded in the code
MaxRetries == 2

\* whole seconds an RPC round trip may add to the elapsed time of a poll
MaxLatency == 1

\* number of distinct feed values an oracle may publish
MaxFeed == 2

\* number of updates sent into the channel altogether
MaxUpdates == 2

\* I80F48 keeps 48 fractional bits; the model keeps FracBits of them
FracBits == 2

\* number of operations called on one MarginfiAccountWithBanks after new
MaxOps == 3

\* fractional bits the model keeps of an I80F48 that is a rate or a ratio
\* (utilization, interest rates); share counts and token amounts keep
\* FracBits
RateFracBits == 10

(* ---------------------------------------------------------------------- *)
(* Values                                                                  *)
(* ---------------------------------------------------------------------- *)
Mints == {"usdc", "usdt", "uxd"}

\* the address-lookup tables the swap API may hand back
LookupTables == {"alt"}

StepOrder == <<"deposit_borrow", "swap", "pool_deposit", "farm_stake">>

NoTx == [id |-> 0, alts |-> {}]

NoOutcome == [kind |-> "none", sig |-> 0]

\* the banks of the group: mint, oracle_setup and oracle_keys[0]
Banks ==
    <<[mint |-> "bsol", oracle_setup |-> "PythEma",       oracle_address |-> "p1"],
      [mint |-> "usdc", oracle_setup |-> "PythEma",       oracle_address |-> "p2"],
      [mint |-> "usdt", oracle_setup |-> "SwitchboardV2", oracle_address |-> "s1"]>>

\* accounts owned by the two oracle programs; px and sx belong to no bank
PythAccounts == {"p1", "p2", "px"}

SwitchboardAccounts == {"s1", "sx"}

\* the balance lists (by mint) the margin account may hold at the first
\* risk calculation
BalanceChoices == {<<"usdt">>, <<"usdt", "bsol">>}

Last(s) == s[Len(s)]

Range(s) == {s[i] : i \in 1..Len(s)}

VARIABLES
    \* ---- bot::start ----
    step,           \* the step of the strategy sequence the task is at
    borrowed_mint,  \* the mint create_marginfi_borrow_instructions chose
    borrowed_amount, \* the amount create_marginfi_borrow_instructions returned
    pool_supply_amount, \* the local pool_supply_amount, 0 before it is bound
    farm_supply_amount, \* the local farm_supply_amount, 0 before it is bound
    risk,           \* history: how the risk calculation of start ended
    startResult,    \* the Err the strategy task returned, "none" while running
    callLog,        \* history: <<step, result>> of every finished force_send_instructions
    sentSteps,      \* history: the steps for which a transaction was submitted
    ixAmounts,      \* history: <<step, amount>> of the instructions of every call
    tokenChanges,   \* history: <<step, change>> parsed from the meta of a call
    \* ---- force_send_instructions ----
    pc,             \* position inside force_send_instructions
    alts,           \* the lookup tables passed to force_send_instructions
    tx,             \* the local variable tx
    retries,        \* the local variable retries
    nextTxId,       \* identity of the next transaction object built
    result,         \* what force_send_instructions returned
    cause,          \* history: why it returned
    submitted,      \* history: the transactions sent in this call, with the attempt
    cycles,         \* history: outcome kind of every finished submit-and-confirm cycle
    printed,        \* history: the lines this call has printed, [kind, sig]
    \* ---- send_and_confirm_transaction ----
    signature,      \* the signature returned by the send
    elapsed,        \* start.elapsed().as_secs()
    polls,          \* history: number of status lookups of this cycle
    lastLookup,     \* history: result of the latest status lookup of this cycle
    outcome,        \* the TransactionResult handed to the match
    \* ---- the network ----
    chain,          \* status of every submitted signature on the chain
    \* ---- main ----
    mainPc,         \* position of main
    mainResult,     \* what main returned, "none" while running
    \* ---- the update channel and OraclesState ----
    channel,        \* the mpsc::unbounded_channel of StateUpdate
    pyth_oracles,   \* OraclesState.pyth_oracles: Vec<(Pubkey, PythPriceFeed)>
    switchboard_oracles, \* OraclesState.switchboard_oracles
    pythLock,       \* holder of the pyth_oracles mutex
    switchboardLock, \* holder of the switchboard_oracles mutex
    \* ---- OraclesState::listen_to_updates ----
    writerPc,       \* position of the cache writer task
    writerUpdate,   \* the update it received
    \* ---- the subscription tasks ----
    pythSubPc,      \* position of the task of subscribe_to_pyth_oracles
    switchboardSubPc, \* position of the task of init_and_subscribe_to_switchboard_oracles
    \* ---- get_total_weighted_amount of the strategy task ----
    balances,       \* the mints of account_with_banks.balances, in order
    websocketPc,    \* the task of create_persisted_websocket_connection
    riskPc,         \* position of the first risk calculation
    riskIdx,        \* index of the balance the loop is at
    \* ---- history ----
    sent,           \* every update sent into the channel, in order
    processed,      \* every update the writer has applied, in order
    \* ---- MarginfiAccountWithBanks ----
    acc,            \* the object: [balances, banks]
    accPc,          \* "default" before MarginfiAccountWithBanks::new, then "ready"
    onChain,        \* the on-chain balances last given to new or update_balances
    accOp,          \* history: the operation called last, with its arguments
    accOps,         \* history: number of operations called
    totals,         \* what the last get_total_weighted_amount returned, and
                    \* history: the price ranges it ran with
    \* ---- MarginfiBank and get_best_bank_for_borrow as functions ----
    bankSet,        \* the banks of an account_with_banks the functions get
    bankCall        \* history: the function called last, its argument and result

txVars == <<step, borrowed_mint, borrowed_amount, pool_supply_amount,
            farm_supply_amount, risk, startResult, callLog, sentSteps, ixAmounts,
            tokenChanges, pc, alts, tx, retries, nextTxId, result, cause,
            submitted, cycles, printed, signature, elapsed, polls, lastLookup,
            outcome, chain>>

cacheVars == <<mainPc, mainResult, channel, pyth_oracles, switchboard_oracles,
               pythLock, switchboardLock, writerPc, writerUpdate, pythSubPc,
               switchboardSubPc, websocketPc, balances, riskPc, riskIdx, sent,
               processed>>

accVars == <<acc, accPc, onChain, accOp, accOps, totals>>

bankVars == <<bankSet, bankCall>>

vars == <<txVars, cacheVars, accVars, bankVars>>

(* ---------------------------------------------------------------------- *)
(* force_send_instructions: the decisions of the loop                      *)
(* ---------------------------------------------------------------------- *)
\* bot.rs:36  if retries % 2 == 0 { tx = build_signed_transaction(.., &[]) }
RebuildsOnAttempt(n) == n % 2 = 0

\* bot.rs:32  the tables handed to the build made before the loop
FirstBuildTables(a) == a

\* bot.rs:37  the tables handed to the build made inside the loop
LoopBuildTables(a) == {}

OnTransactionResult_RetriesError(kind) ==
    CASE kind = "Success" -> "return_ok"
      [] kind = "Timeout" -> "retry"
      [] kind = "Error"   -> "retry"

OnTransactionResult_TimeoutFails(kind) ==
    CASE kind = "Success" -> "return_ok"
      [] kind = "Timeout" -> "return_err"
      [] kind = "Error"   -> "return_err"

\* bot.rs:40-50  what the match does with a TransactionResult
OnTransactionResult(kind) ==
    CASE kind = "Success" -> "return_ok"
      [] kind = "Timeout" -> "retry"
      [] kind = "Error"   -> "return_err"

\* transaction.rs:92-114  what build_signed_transaction can return: Ok, or
\* the error of get_latest_blockhash, try_compile, try_new or sanitize
BuildResults ==
    {"Ok", "RpcError", "UnableToCompile", "MissingSigner", "MissingSignature"}

OnBuildResult_KeepsOldTx(r) ==
    CASE r = "Ok" -> "built"
      [] r = "RpcError" -> "return_err"
      [] OTHER -> "skipped"

\* bot.rs:32, 37  build_signed_transaction(..).await?: an Ok is bound to tx,
\* an error ends force_send_instructions
OnBuildResult(r) == IF r = "Ok" THEN "built" ELSE "return_err"

LoopContinues_ThreeAttempts(n) == n < 2

\* bot.rs:35  loop { .. }: no condition on the number of attempts
LoopContinues(n) == TRUE

ReportOf_SilentError(o) ==
    IF o.kind = "Success" THEN <<[kind |-> o.kind, sig |-> o.sig]>> ELSE <<>>

\* bot.rs:41-49  the println! of the match: "Transaction successful: {sig}",
\* "Transaction error: {sig} - {e}", and nothing for a Timeout
ReportOf(o) ==
    IF o.kind \in {"Success", "Error"}
      THEN <<[kind |-> o.kind, sig |-> o.sig]>> ELSE <<>>

(* ---------------------------------------------------------------------- *)
(* send_and_confirm_transaction: the decisions of the poll loop            *)
(* ---------------------------------------------------------------------- *)
DeadlinePassed_Never(e) == FALSE

\* transaction.rs:143  if start.elapsed().as_secs() > TX_VALIDITY_DURATION
DeadlinePassed(e) == e > TX_VALIDITY_DURATION

\* what get_transaction_with_config can answer for a signature whose status
\* on the chain is st: a missing transaction is a null result, which the
\* client reports as a SerdeJson error
LookupAnswers(st) ==
    {"SerdeJson", "OtherErr"}
        \cup (IF st = "ok" THEN {"MetaOk", "NoMeta"} ELSE {})
        \cup (IF st = "err" THEN {"MetaErr", "NoMeta"} ELSE {})

OnLookup_PropagatesAll(answer) ==
    CASE answer = "SerdeJson" -> "rpc_error"
      [] answer = "OtherErr"  -> "rpc_error"
      [] answer = "NoMeta"    -> "transaction_error"
      [] answer = "MetaErr"   -> "Error"
      [] answer = "MetaOk"    -> "Success"

\* transaction.rs:159-173  what the poll loop does with a lookup result
OnLookup(answer) ==
    CASE answer = "SerdeJson" -> "continue"
      [] answer = "OtherErr"  -> "rpc_error"
      [] answer = "NoMeta"    -> "transaction_error"
      [] answer = "MetaErr"   -> "Error"
      [] answer = "MetaOk"    -> "Success"

(* ---------------------------------------------------------------------- *)
(* Initial state of the pipeline                                           *)
(* ---------------------------------------------------------------------- *)
TxStart ==
    /\ step = "create_instructions"
    /\ borrowed_mint = "none"
    /\ borrowed_amount = 0
    /\ pool_supply_amount = 0
    /\ farm_supply_amount = 0
    /\ ixAmounts = <<>>
    /\ tokenChanges = <<>>
    /\ printed = <<>>
    /\ risk = "none"
    /\ startResult = "none"
    /\ callLog = <<>>
    /\ sentSteps = {}
    /\ pc = "idle"
    /\ alts = {}
    /\ tx = NoTx
    /\ retries = 0
    /\ nextTxId = 1
    /\ result = "none"
    /\ cause = "none"
    /\ submitted = <<>>
    /\ cycles = <<>>
    /\ signature = 0
    /\ elapsed = 0
    /\ polls = 0
    /\ lastLookup = "none"
    /\ outcome = NoOutcome
    /\ chain = <<>>

\* the oracle cache as SpecTx leaves it: not started
CacheIdle ==
    /\ mainPc = "not_modelled"
    /\ mainResult = "none"
    /\ channel = <<>>
    /\ pyth_oracles = <<>>
    /\ switchboard_oracles = <<>>
    /\ pythLock = "free"
    /\ switchboardLock = "free"
    /\ writerPc = "recv"
    /\ writerUpdate = [type |-> "none", address |-> "none", feed |-> 0]
    /\ pythSubPc = "subscribe"
    /\ switchboardSubPc = "not_spawned"
    /\ websocketPc = "running"
    /\ balances = <<>>
    /\ riskPc = "idle"
    /\ riskIdx = 1
    /\ sent = <<>>
    /\ processed = <<>>

NoOp == [op |-> "none", mint |-> "none", amount |-> 0]

NoTotals == [returned |-> [status |-> "none", assets |-> 0, liabilities |-> 0],
             ranges |-> <<>>]

\* state.rs:505  Self::default(), the object before new has filled it; the
\* account object as SpecTx and SpecCache leave it
AccDefault ==
    /\ acc = [balances |-> <<>>, banks |-> <<>>]
    /\ accPc = "default"
    /\ onChain = <<>>
    /\ accOp = NoOp
    /\ accOps = 0
    /\ totals = NoTotals

NoCall == [fn |-> "none", mint |-> "none", requested |-> 0,
           panic |-> FALSE, value |-> 0]

\* no function of a bank called: the banks as the other specifications leave
\* them
BankIdle ==
    /\ bankSet = <<>>
    /\ bankCall = NoCall

amountVars == <<borrowed_amount, pool_supply_amount, farm_supply_amount>>
startVars == <<step, borrowed_mint, amountVars, risk, startResult, callLog, sentSteps,
               ixAmounts, tokenChanges>>
pollVars == <<signature, elapsed, polls, lastLookup, outcome>>

\* force_send_instructions returns r for the reason c
Return(r, c) ==
    /\ pc' = "returned"
    /\ result' = r
    /\ cause' = c
    /\ callLog' = Append(callLog, <<step, r>>)

(* ---------------------------------------------------------------------- *)
(* bot::start                                                              *)
(* ---------------------------------------------------------------------- *)
\* addresses.rs:50-56  get_token_for_deposit: the amount goes to the side
\* of the pool that holds the mint
get_token_for_deposit(amount, mint, a_token_mint) ==
    IF mint = a_token_mint THEN <<amount, 0>> ELSE <<0, amount>>

\* the mint of token A of the USDC pool
PoolTokenAMints == {"usdc", "usdt"}

\* bot.rs:167-227  the amount the instructions of a step carry: what was
\* borrowed (deposit+borrow, and the input of the swap), the two token
\* amounts of the pool deposit, the amount of the farm deposit
InstructionAmount(s, a_token_mint) ==
    CASE s = "deposit_borrow" -> borrowed_amount
      [] s = "swap"           -> borrowed_amount
      [] s = "pool_deposit"   ->
            get_token_for_deposit(pool_supply_amount, "usdc", a_token_mint)[1]
              + get_token_for_deposit(pool_supply_amount, "usdc", a_token_mint)[2]
      [] s = "farm_stake"     -> farm_supply_amount

\* bot.rs:176,187,215,227  start calls force_send_instructions for its step;
\* only the swap passes lookup tables (those of fetch_swap_instructions)
StartCall ==
    /\ UNCHANGED <<cacheVars, accVars, bankVars>>
    /\ pc = "idle"
    /\ step \in {"deposit_borrow", "swap", "pool_deposit", "farm_stake"}
    /\ \E a \in SUBSET LookupTables :
          /\ (step # "swap" => a = {})
          /\ alts' = a
    /\ \E a_token_mint \in PoolTokenAMints :
          ixAmounts' = Append(ixAmounts,
                              <<step, InstructionAmount(step, a_token_mint)>>)
    /\ pc' = "build_first"
    /\ tx' = NoTx
    /\ retries' = 0
    /\ nextTxId' = 1
    /\ result' = "none"
    /\ cause' = "none"
    /\ submitted' = <<>>
    /\ cycles' = <<>>
    /\ printed' = <<>>
    /\ chain' = <<>>
    /\ signature' = 0
    /\ elapsed' = 0
    /\ polls' = 0
    /\ lastLookup' = "none"
    /\ outcome' = NoOutcome
    /\ UNCHANGED <<step, borrowed_mint, amountVars, risk, startResult, callLog,
                   sentSteps, tokenChanges>>

\* bot.rs:179-186  fetch_swap_instructions(...).await? fails
StartFetchSwapFails ==
    /\ UNCHANGED <<cacheVars, accVars, bankVars>>
    /\ pc = "idle"
    /\ step = "swap"
    /\ step' = "failed"
    /\ startResult' = "JupiterApiError"
    /\ UNCHANGED <<borrowed_mint, amountVars, ixAmounts, tokenChanges, printed,
                   risk, callLog, sentSteps, pc, alts, tx, retries,
                   nextTxId, result, cause, submitted, cycles, chain>>
    /\ UNCHANGED pollVars

\* the errors of get_meteora_pool, meteora_pool_deposit and
\* meteora_farm_deposit
MeteoraErrors(s) ==
    IF s = "pool_deposit" THEN {"InvalidMeteoraPool", "InvalidTokenAccount"}
    ELSE {"InvalidMeteoraFarm", "InvalidMeteoraPool", "InvalidTokenAccount"}

\* bot.rs:201, 213, 226  the `?` of the calls that make the instructions of
\* the pool deposit and of the farm deposit
StartMeteoraFails ==
    /\ UNCHANGED <<cacheVars, accVars, bankVars>>
    /\ pc = "idle"
    /\ step \in {"pool_deposit", "farm_stake"}
    /\ step' = "failed"
    /\ startResult' \in MeteoraErrors(step)
    /\ UNCHANGED <<borrowed_mint, amountVars, ixAmounts, tokenChanges, printed,
                   risk, callLog, sentSteps, pc, alts, tx, retries,
                   nextTxId, result, cause, submitted, cycles, chain>>
    /\ UNCHANGED pollVars

\* bot.rs:178  the swap is made only when the borrowed mint is not USDC
StepAfter(s, mint) ==
    CASE s = "deposit_borrow" -> IF mint # "usdc" THEN "swap" ELSE "pool_deposit"
      [] s = "swap"           -> "pool_deposit"
      [] s = "pool_deposit"   -> "farm_stake"
      [] s = "farm_stake"     -> "sleeping"

AfterCall_IgnoresError(s, mint, r) ==
    [step |-> StepAfter(s, mint), startResult |-> "none"]

\* bot.rs:176-228  the `?` after every force_send_instructions(...).await
AfterCall(s, mint, r) ==
    IF r = "Ok" THEN [step |-> StepAfter(s, mint), startResult |-> "none"]
                ELSE [step |-> "failed", startResult |-> r]

\* what parse_transaction_token_change finds in the meta of a confirmed
\* transaction: <<>> for None, <<n>> for Some(n)
TokenChanges == {<<>>, <<3>>}

\* bot.rs:188-194, 217-218  the steps whose meta is parsed and unwrapped
ParsesMeta(s) == s \in {"swap", "pool_deposit"}

AmountsAfter_PoolGetsBorrowed(s, mint, change) ==
    CASE s = "deposit_borrow" ->
            <<borrowed_amount, borrowed_amount, farm_supply_amount>>
      [] s = "swap"         -> <<borrowed_amount, borrowed_amount, farm_supply_amount>>
      [] s = "pool_deposit" -> <<borrowed_amount, pool_supply_amount, change[1]>>
      [] s = "farm_stake"   -> <<borrowed_amount, pool_supply_amount, farm_supply_amount>>

AmountsAfter_FarmGetsPoolSupply(s, mint, change) ==
    CASE s = "deposit_borrow" ->
            <<borrowed_amount,
              IF mint # "usdc" THEN pool_supply_amount ELSE borrowed_amount,
              farm_supply_amount>>
      [] s = "swap"         -> <<borrowed_amount, change[1], farm_supply_amount>>
      [] s = "pool_deposit" -> <<borrowed_amount, pool_supply_amount, pool_supply_amount>>
      [] s = "farm_stake"   -> <<borrowed_amount, pool_supply_amount, farm_supply_amount>>

\* bot.rs:178-219  the locals after the call of step s returned Ok:
\* pool_supply_amount is the parsed change of the swap, or borrowed_amount
\* when there is no swap; farm_supply_amount is the parsed change of the
\* pool deposit
AmountsAfter(s, mint, change) ==
    CASE s = "deposit_borrow" ->
            <<borrowed_amount,
              IF mint # "usdc" THEN pool_supply_amount ELSE borrowed_amount,
              farm_supply_amount>>
      [] s = "swap"         -> <<borrowed_amount, change[1], farm_supply_amount>>
      [] s = "pool_deposit" -> <<borrowed_amount, pool_supply_amount, change[1]>>
      [] s = "farm_stake"   -> <<borrowed_amount, pool_supply_amount, farm_supply_amount>>

\* bot.rs:176-228  force_send_instructions has returned: the `?`, then the
\* parse of the meta and its unwrap, which panics on None
StartReturn ==
    /\ UNCHANGED <<cacheVars, accVars, bankVars>>
    /\ pc = "returned"
    /\ LET after == AfterCall(step, borrowed_mint, result) IN
         IF after.step = "failed"
         THEN /\ step' = "failed"
              /\ startResult' = after.startResult
              /\ pc' = "done"
              /\ UNCHANGED <<amountVars, tokenChanges>>
         ELSE \E change \in TokenChanges :
                /\ ParsesMeta(step) \/ change = <<>>
                /\ IF ParsesMeta(step) /\ change = <<>>
                     THEN /\ step' = "panicked"
                          /\ startResult' = "panic"
                          /\ pc' = "done"
                          /\ UNCHANGED amountVars
                     ELSE /\ step' = after.step
                          /\ startResult' = after.startResult
                          /\ pc' = IF after.step \in Range(StepOrder)
                                     THEN "idle" ELSE "done"
                          /\ LET am == AmountsAfter(step, borrowed_mint, change)
                             IN /\ borrowed_amount' = am[1]
                                /\ pool_supply_amount' = am[2]
                                /\ farm_supply_amount' = am[3]
                /\ tokenChanges' = IF ParsesMeta(step)
                                     THEN Append(tokenChanges, <<step, change>>)
                                     ELSE tokenChanges
    /\ UNCHANGED <<borrowed_mint, ixAmounts, printed, risk, callLog, sentSteps,
                   alts, tx, retries, nextTxId, result, cause, submitted,
                   cycles, chain>>
    /\ UNCHANGED pollVars

(* ---------------------------------------------------------------------- *)
(* force_send_instructions                                                 *)
(* ---------------------------------------------------------------------- *)
\* transaction.rs:92-114  build_signed_transaction succeeds: a new object
Built(tables) == [id |-> nextTxId, alts |-> tables]

\* bot.rs:32  let mut tx = build_signed_transaction(.., &alts[..]).await?
FsiFirstBuild ==
    /\ UNCHANGED <<cacheVars, accVars, bankVars>>
    /\ pc = "build_first"
    /\ \E r \in BuildResults :
         LET d == OnBuildResult(r) IN
           CASE d = "built" ->
                  /\ tx' = Built(FirstBuildTables(alts))
                  /\ nextTxId' = nextTxId + 1
                  /\ pc' = "loop_head"
                  /\ UNCHANGED <<result, cause, callLog>>
             [] d = "return_err" ->
                  /\ Return("ClientTransactionError", "build")
                  /\ UNCHANGED <<tx, nextTxId>>
             [] d = "skipped" ->
                  /\ pc' = "loop_head"
                  /\ UNCHANGED <<tx, nextTxId, result, cause, callLog>>
    /\ UNCHANGED <<step, borrowed_mint, amountVars, ixAmounts, tokenChanges,
                   printed, risk, startResult, sentSteps, alts, retries,
                   submitted, cycles, chain>>
    /\ UNCHANGED pollVars

\* bot.rs:36-38  the head of the loop
FsiLoopHead ==
    /\ UNCHANGED <<cacheVars, accVars, bankVars>>
    /\ pc = "loop_head"
    /\ IF RebuildsOnAttempt(retries)
         THEN \E r \in BuildResults :
                LET d == OnBuildResult(r) IN
                  CASE d = "built" ->
                         /\ tx' = Built(LoopBuildTables(alts))
                         /\ nextTxId' = nextTxId + 1
                         /\ pc' = "send"
                         /\ UNCHANGED <<result, cause, callLog>>
                    [] d = "return_err" ->
                         /\ Return("ClientTransactionError", "build")
                         /\ UNCHANGED <<tx, nextTxId>>
                    [] d = "skipped" ->
                         /\ pc' = "send"
                         /\ UNCHANGED <<tx, nextTxId, result, cause, callLog>>
         ELSE /\ pc' = "send"
              /\ UNCHANGED <<tx, nextTxId, result, cause, callLog>>
    /\ UNCHANGED <<step, borrowed_mint, amountVars, ixAmounts, tokenChanges,
                   printed, risk, startResult, sentSteps, alts, retries,
                   submitted, cycles, chain>>
    /\ UNCHANGED pollVars

\* transaction.rs:129-140  send_transaction_with_config(tx).await?, then
\* println!("Sent transaction: {}", signature)
SacSend ==
    /\ UNCHANGED <<cacheVars, accVars, bankVars>>
    /\ pc = "send"
    /\ \/ /\ signature' = tx.id
          /\ submitted' = Append(submitted, [tx |-> tx, attempt |-> retries])
          /\ sentSteps' = sentSteps \cup {step}
          /\ chain' = IF tx.id \in DOMAIN chain THEN chain
                      ELSE [i \in (DOMAIN chain) \cup {tx.id} |->
                               IF i \in DOMAIN chain THEN chain[i] ELSE "pending"]
          /\ elapsed' = 0
          /\ polls' = 0
          /\ lastLookup' = "none"
          /\ outcome' = NoOutcome
          /\ printed' = Append(printed, [kind |-> "Sent", sig |-> tx.id])
          /\ pc' = "poll_head"
          /\ UNCHANGED <<result, cause, callLog>>
       \/ /\ Return("RpcError", "rpc")
          /\ UNCHANGED <<signature, submitted, sentSteps, chain, elapsed, polls,
                         lastLookup, outcome, printed>>
    /\ UNCHANGED <<step, borrowed_mint, amountVars, ixAmounts, tokenChanges,
                   risk, startResult, alts, tx, retries, nextTxId, cycles>>

\* transaction.rs:142-147  the deadline test, then sleep(POLL_TIMEOUT)
SacPollHead ==
    /\ UNCHANGED <<cacheVars, accVars, bankVars>>
    /\ pc = "poll_head"
    /\ IF DeadlinePassed(elapsed)
         THEN /\ outcome' = [kind |-> "Timeout", sig |-> signature]
              /\ cycles' = Append(cycles, "Timeout")
              /\ pc' = "match"
              /\ UNCHANGED elapsed
         ELSE /\ elapsed' = elapsed + POLL_TIMEOUT
              /\ pc' = "lookup"
              /\ UNCHANGED <<outcome, cycles>>
    /\ UNCHANGED <<step, borrowed_mint, amountVars, ixAmounts, tokenChanges,
                   printed, risk, startResult, callLog, sentSteps, alts,
                   tx, retries, nextTxId, result, cause, submitted, signature,
                   polls, lastLookup, chain>>

\* transaction.rs:148-173  get_transaction_with_config and the match on it
SacLookup ==
    /\ UNCHANGED <<cacheVars, accVars, bankVars>>
    /\ pc = "lookup"
    /\ \E answer \in LookupAnswers(chain[signature]), latency \in 0..MaxLatency :
          /\ lastLookup' = answer
          /\ polls' = polls + 1
          /\ elapsed' = elapsed + latency
          /\ LET d == OnLookup(answer) IN
               CASE d = "continue" ->
                      /\ pc' = "poll_head"
                      /\ UNCHANGED <<outcome, cycles, result, cause, callLog>>
                 [] d = "rpc_error" ->
                      /\ Return("RpcError", "rpc")
                      /\ UNCHANGED <<outcome, cycles>>
                 [] d = "transaction_error" ->
                      /\ Return("TransactionError", "rpc")
                      /\ UNCHANGED <<outcome, cycles>>
                 [] d \in {"Error", "Success"} ->
                      /\ outcome' = [kind |-> d, sig |-> signature]
                      /\ cycles' = Append(cycles, d)
                      /\ pc' = "match"
                      /\ UNCHANGED <<result, cause, callLog>>
    /\ UNCHANGED <<step, borrowed_mint, amountVars, ixAmounts, tokenChanges,
                   printed, risk, startResult, sentSteps, alts, tx,
                   retries, nextTxId, submitted, signature, chain>>

\* bot.rs:40-52  the match on the TransactionResult and retries += 1
FsiMatch ==
    /\ UNCHANGED <<cacheVars, accVars, bankVars>>
    /\ pc = "match"
    /\ LET d == OnTransactionResult(outcome.kind) IN
         CASE d = "return_ok" ->
                /\ Return("Ok", "cycle")
                /\ UNCHANGED retries
           [] d = "return_err" ->
                /\ Return("TransactionError", "cycle")
                /\ UNCHANGED retries
           [] d = "retry" ->
                IF LoopContinues(retries)
                  THEN /\ retries < MaxRetries
                       /\ retries' = retries + 1
                       /\ pc' = "loop_head"
                       /\ UNCHANGED <<result, cause, callLog>>
                  ELSE /\ Return("TransactionError", "exhausted")
                       /\ UNCHANGED retries
    /\ printed' = printed \o ReportOf(outcome)
    /\ UNCHANGED <<step, borrowed_mint, amountVars, ixAmounts, tokenChanges,
                   risk, startResult, sentSteps, alts, tx, nextTxId,
                   submitted, cycles, chain>>
    /\ UNCHANGED pollVars

(* ---------------------------------------------------------------------- *)
(* The network                                                             *)
(* ---------------------------------------------------------------------- *)
\* a submitted transaction is executed by the cluster, and succeeds or is
\* rejected by the program
ChainLands ==
    /\ UNCHANGED <<cacheVars, accVars, bankVars>>
    /\ \E id \in DOMAIN chain, st \in {"ok", "err"} :
          /\ chain[id] = "pending"
          /\ chain' = [chain EXCEPT ![id] = st]
    /\ UNCHANGED <<step, borrowed_mint, amountVars, ixAmounts, tokenChanges,
                   printed, risk, startResult, callLog, sentSteps, pc,
                   alts, tx, retries, nextTxId, result, cause, submitted, cycles>>
    /\ UNCHANGED pollVars

(* ---------------------------------------------------------------------- *)
(* The oracle cache: values                                                *)
(* ---------------------------------------------------------------------- *)
Feeds == 1..MaxFeed

NoUpdate == [type |-> "none", address |-> "none", feed |-> 0]

\* state.rs:184-187  enum StateUpdate
StateUpdate(type, address, feed) ==
    [type |-> type, address |-> address, feed |-> feed]

\* connection.rs:238-244, 287-293  the oracle addresses of the banks of a type
WatchedOracles(setup) ==
    LET RECURSIVE Collect(_)
        Collect(i) ==
            IF i > Len(Banks) THEN <<>>
            ELSE IF Banks[i].oracle_setup = setup
                 THEN <<Banks[i].oracle_address>> \o Collect(i + 1)
                 ELSE Collect(i + 1)
    IN Collect(1)

\* state.rs:564-566  get_bank_by_mint
get_bank_by_mint(mint) ==
    Banks[CHOOSE i \in 1..Len(Banks) :
             /\ Banks[i].mint = mint
             /\ \A j \in 1..(i - 1) : Banks[j].mint # mint]

\* index of the first entry of a Vec<(Pubkey, feed)> with the address, 0 if none
Position(oracles, address) ==
    IF \E i \in 1..Len(oracles) : oracles[i][1] = address
    THEN CHOOSE i \in 1..Len(oracles) :
             /\ oracles[i][1] = address
             /\ \A j \in 1..(i - 1) : oracles[j][1] # address
    ELSE 0

Find_First(oracles, address) ==
    IF oracles = <<>> THEN <<>> ELSE <<oracles[1][2]>>

\* state.rs:212-216, 221-225  iter().find(|(address, _)| address == oracle_address)
\* <<feed>> is Some(feed), <<>> is None
Find(oracles, address) ==
    IF Position(oracles, address) = 0 THEN <<>>
    ELSE <<oracles[Position(oracles, address)][2]>>

Upsert_AlwaysPushes(oracles, address, feed) ==
    Append(oracles, <<address, feed>>)

Upsert_KeepsFirst(oracles, address, feed) ==
    IF Position(oracles, address) = 0
    THEN Append(oracles, <<address, feed>>)
    ELSE oracles

\* state.rs:241-247, 252-258  replace the feed of the saved oracle, else push
Upsert(oracles, address, feed) ==
    IF Position(oracles, address) = 0
    THEN Append(oracles, <<address, feed>>)
    ELSE [oracles EXCEPT ![Position(oracles, address)] = <<address, feed>>]

\* the pipeline as SpecCache leaves it: not started
TxIdle ==
    /\ step = "deposit_borrow"
    /\ borrowed_mint = "usdc"
    /\ borrowed_amount = 0
    /\ pool_supply_amount = 0
    /\ farm_supply_amount = 0
    /\ ixAmounts = <<>>
    /\ tokenChanges = <<>>
    /\ printed = <<>>
    /\ risk = "none"
    /\ startResult = "none"
    /\ callLog = <<>>
    /\ sentSteps = {}
    /\ pc = "idle"
    /\ alts = {}
    /\ tx = NoTx
    /\ retries = 0
    /\ nextTxId = 1
    /\ result = "none"
    /\ cause = "none"
    /\ submitted = <<>>
    /\ cycles = <<>>
    /\ signature = 0
    /\ elapsed = 0
    /\ polls = 0
    /\ lastLookup = "none"
    /\ outcome = NoOutcome
    /\ chain = <<>>

\* main.rs:96-107  the websocket task runs, the channel and the empty
\* OraclesState exist, the writer task and the Pyth subscription task are
\* spawned, main is about to await
\* init_and_subscribe_to_switchboard_oracles
CacheStart ==
    /\ mainPc = "init_switchboard"
    /\ mainResult = "none"
    /\ channel = <<>>
    /\ pyth_oracles = <<>>
    /\ switchboard_oracles = <<>>
    /\ pythLock = "free"
    /\ switchboardLock = "free"
    /\ writerPc = "recv"
    /\ writerUpdate = NoUpdate
    /\ pythSubPc = "subscribe"
    /\ switchboardSubPc = "not_spawned"
    /\ websocketPc = "running"
    /\ balances \in BalanceChoices
    /\ riskPc = "idle"
    /\ riskIdx = 1
    /\ sent = <<>>
    /\ processed = <<>>

Running == mainPc \in {"init_switchboard", "sleep", "select"}

(* ---------------------------------------------------------------------- *)
(* OraclesState::listen_to_updates (the cache writer task)                  *)
(* ---------------------------------------------------------------------- *)
\* state.rs:236  while let Some(update) = update_receiver.recv().await
WriterRecvNext ==
    /\ writerUpdate' = Head(channel)
    /\ channel' = Tail(channel)

WriterRecv ==
    /\ UNCHANGED <<txVars, accVars, bankVars, websocketPc>>
    /\ Running
    /\ writerPc = "recv"
    /\ channel # <<>>
    /\ WriterRecvNext
    /\ writerPc' = "lock"
    /\ UNCHANGED <<mainPc, mainResult, pyth_oracles, switchboard_oracles,
                   pythLock, switchboardLock, pythSubPc, switchboardSubPc,
                   balances, riskPc, riskIdx, sent, processed>>

\* state.rs:239, 250  let mut oracles = state.<partition>.lock().await
WriterLock ==
    /\ UNCHANGED <<txVars, accVars, bankVars, websocketPc>>
    /\ Running
    /\ writerPc = "lock"
    /\ IF writerUpdate.type = "PythOracle"
         THEN /\ pythLock = "free"
              /\ pythLock' = "writer"
              /\ UNCHANGED switchboardLock
         ELSE /\ switchboardLock = "free"
              /\ switchboardLock' = "writer"
              /\ UNCHANGED pythLock
    /\ writerPc' = "upsert"
    /\ UNCHANGED <<mainPc, mainResult, channel, pyth_oracles,
                   switchboard_oracles, writerUpdate, pythSubPc,
                   switchboardSubPc, balances, riskPc, riskIdx,
                   sent, processed>>

WriterUpsert_KeepsLock ==
    /\ UNCHANGED <<txVars, accVars, bankVars, websocketPc>>
    /\ Running
    /\ writerPc = "upsert"
    /\ IF writerUpdate.type = "PythOracle"
         THEN /\ pyth_oracles' =
                    Upsert(pyth_oracles, writerUpdate.address, writerUpdate.feed)
              /\ UNCHANGED <<switchboard_oracles, switchboardLock, pythLock>>
         ELSE /\ switchboard_oracles' =
                    Upsert(switchboard_oracles, writerUpdate.address,
                           writerUpdate.feed)
              /\ UNCHANGED <<pyth_oracles, pythLock, switchboardLock>>
    /\ processed' = Append(processed, writerUpdate)
    /\ writerUpdate' = NoUpdate
    /\ writerPc' = "recv"
    /\ UNCHANGED <<mainPc, mainResult, channel, pythSubPc, switchboardSubPc,
                   balances, riskPc, riskIdx, sent>>

\* state.rs:241-248, 252-259  the upsert; the guard is dropped at the end of
\* the match arm
WriterUpsert ==
    /\ UNCHANGED <<txVars, accVars, bankVars, websocketPc>>
    /\ Running
    /\ writerPc = "upsert"
    /\ IF writerUpdate.type = "PythOracle"
         THEN /\ pyth_oracles' =
                    Upsert(pyth_oracles, writerUpdate.address, writerUpdate.feed)
              /\ pythLock' = "free"
              /\ UNCHANGED <<switchboard_oracles, switchboardLock>>
         ELSE /\ switchboard_oracles' =
                    Upsert(switchboard_oracles, writerUpdate.address,
                           writerUpdate.feed)
              /\ switchboardLock' = "free"
              /\ UNCHANGED <<pyth_oracles, pythLock>>
    /\ processed' = Append(processed, writerUpdate)
    /\ writerUpdate' = NoUpdate
    /\ writerPc' = "recv"
    /\ UNCHANGED <<mainPc, mainResult, channel, pythSubPc, switchboardSubPc,
                   balances, riskPc, riskIdx, sent>>

(* ---------------------------------------------------------------------- *)
(* connection::subscribe_to_pyth_oracles (the spawned task)                 *)
(* ---------------------------------------------------------------------- *)
\* connection.rs:248  ws_client.program_subscribe(PYTH_ID, ..).await?
PythSubscribe ==
    /\ UNCHANGED <<txVars, accVars, bankVars, websocketPc>>
    /\ Running
    /\ pythSubPc = "subscribe"
    /\ pythSubPc' \in {"stream", "failed"}
    /\ UNCHANGED <<mainPc, mainResult, channel, pyth_oracles,
                   switchboard_oracles, pythLock, switchboardLock, writerPc,
                   writerUpdate, switchboardSubPc, balances, riskPc,
                   riskIdx, sent, processed>>

OnPythPayload_SendsUnwatched(a, kind) ==
    IF kind = "undecodable" THEN "panic"
    ELSE IF kind = "stale" THEN "drop"
    ELSE "send"

\* what the task does with a payload for the account a: "skip" for an
\* unwatched account (connection.rs:253), "panic" when decoding or loading
\* fails (the unwraps of connection.rs:257-259), "drop" when the EMA price is
\* older than 60 s (connection.rs:266), else "send"
OnPythPayload(a, kind) ==
    IF a \notin Range(WatchedOracles("PythEma")) THEN "skip"
    ELSE IF kind = "undecodable" THEN "panic"
    ELSE IF kind = "stale" THEN "drop"
    ELSE "send"

\* connection.rs:250-275  one payload of the stream
PythPayload ==
    /\ UNCHANGED <<txVars, accVars, bankVars, websocketPc>>
    /\ Running
    /\ pythSubPc = "stream"
    /\ Len(sent) < MaxUpdates
    /\ \E a \in PythAccounts, kind \in {"fresh", "undecodable", "stale"},
          feed \in Feeds :
          LET d == OnPythPayload(a, kind) IN
            /\ pythSubPc' = IF d = "panic" THEN "panicked" ELSE "stream"
            /\ IF d = "send"
                 THEN /\ channel' = Append(channel, StateUpdate("PythOracle", a, feed))
                      /\ sent' = Append(sent, StateUpdate("PythOracle", a, feed))
                 ELSE UNCHANGED <<channel, sent>>
    /\ UNCHANGED <<mainPc, mainResult, pyth_oracles, switchboard_oracles,
                   pythLock, switchboardLock, writerPc, writerUpdate,
                   switchboardSubPc, balances, riskPc, riskIdx, processed>>

\* connection.rs:247-250  stream.next() returns None: back to the subscribe
PythStreamEnds ==
    /\ UNCHANGED <<txVars, accVars, bankVars, websocketPc>>
    /\ Running
    /\ pythSubPc = "stream"
    /\ pythSubPc' = "subscribe"
    /\ UNCHANGED <<mainPc, mainResult, channel, pyth_oracles,
                   switchboard_oracles, pythLock, switchboardLock, writerPc,
                   writerUpdate, switchboardSubPc, balances, riskPc,
                   riskIdx, sent, processed>>

(* ---------------------------------------------------------------------- *)
(* connection::init_and_subscribe_to_switchboard_oracles                    *)
(* ---------------------------------------------------------------------- *)
\* the updates of the bulk fetch, one per watched oracle, in order
BulkUpdates(feeds) ==
    [i \in 1..Len(WatchedOracles("SwitchboardV2")) |->
        StateUpdate("SwitchboardOracle", WatchedOracles("SwitchboardV2")[i], feeds[i])]

\* connection.rs:295-336  awaited by main (main.rs:108-114): the bulk fetch
\* sends one update per watched oracle, then the task is spawned
MainInitSwitchboard ==
    /\ UNCHANGED <<txVars, accVars, bankVars, websocketPc>>
    /\ mainPc = "init_switchboard"
    /\ \/ \E feeds \in [1..Len(WatchedOracles("SwitchboardV2")) -> Feeds] :
             /\ channel' = channel \o BulkUpdates(feeds)
             /\ sent' = sent \o BulkUpdates(feeds)
             /\ switchboardSubPc' = "subscribe"
             /\ mainPc' = "sleep"
             /\ UNCHANGED mainResult
       \/ \E e \in {"RpcError", "UnableToFetchAccount", "panic"} :
             /\ mainPc' = "exited"
             /\ mainResult' = e
             /\ UNCHANGED <<channel, sent, switchboardSubPc>>
    /\ UNCHANGED <<pyth_oracles, switchboard_oracles, pythLock, switchboardLock,
                   writerPc, writerUpdate, pythSubPc, balances,
                   riskPc, riskIdx, processed>>

\* connection.rs:314-316  program_subscribe(SWITCHBOARD_V2_MAINNET, ..).await?
SwitchboardSubscribe ==
    /\ UNCHANGED <<txVars, accVars, bankVars, websocketPc>>
    /\ Running
    /\ switchboardSubPc = "subscribe"
    /\ switchboardSubPc' \in {"stream", "failed"}
    /\ UNCHANGED <<mainPc, mainResult, channel, pyth_oracles,
                   switchboard_oracles, pythLock, switchboardLock, writerPc,
                   writerUpdate, pythSubPc, balances, riskPc,
                   riskIdx, sent, processed>>

\* connection.rs:321-327  unwatched: skip; parse fails: the unwrap panics
OnSwitchboardPayload(a, kind) ==
    IF a \notin Range(WatchedOracles("SwitchboardV2")) THEN "skip"
    ELSE IF kind = "undecodable" THEN "panic"
    ELSE "send"

\* connection.rs:318-333  one payload of the stream
SwitchboardPayload ==
    /\ UNCHANGED <<txVars, accVars, bankVars, websocketPc>>
    /\ Running
    /\ switchboardSubPc = "stream"
    /\ Len(sent) < MaxUpdates
    /\ \E a \in SwitchboardAccounts, kind \in {"fresh", "undecodable"},
          feed \in Feeds :
          LET d == OnSwitchboardPayload(a, kind) IN
            /\ switchboardSubPc' = IF d = "panic" THEN "panicked" ELSE "stream"
            /\ IF d = "send"
                 THEN /\ channel' = Append(channel,
                                           StateUpdate("SwitchboardOracle", a, feed))
                      /\ sent' = Append(sent,
                                        StateUpdate("SwitchboardOracle", a, feed))
                 ELSE UNCHANGED <<channel, sent>>
    /\ UNCHANGED <<mainPc, mainResult, pyth_oracles, switchboard_oracles,
                   pythLock, switchboardLock, writerPc, writerUpdate, pythSubPc,
                   balances, riskPc, riskIdx, processed>>

\* connection.rs:313-318  stream.next() returns None: back to the subscribe
SwitchboardStreamEnds ==
    /\ UNCHANGED <<txVars, accVars, bankVars, websocketPc>>
    /\ Running
    /\ switchboardSubPc = "stream"
    /\ switchboardSubPc' = "subscribe"
    /\ UNCHANGED <<mainPc, mainResult, channel, pyth_oracles,
                   switchboard_oracles, pythLock, switchboardLock, writerPc,
                   writerUpdate, pythSubPc, balances, riskPc,
                   riskIdx, sent, processed>>

(* ---------------------------------------------------------------------- *)
(* main                                                                    *)
(* ---------------------------------------------------------------------- *)
\* main.rs:118-121  sleep(5 s), then select! evaluates bot::start, which
\* spawns the strategy task.  The writer only works in memory, so what was
\* sent before the sleep ends has been applied when it ends.
MainSleep ==
    /\ UNCHANGED <<txVars, accVars, bankVars, websocketPc>>
    /\ mainPc = "sleep"
    /\ channel = <<>>
    /\ writerPc = "recv"
    /\ mainPc' = "select"
    /\ riskPc' = "lock"
    /\ UNCHANGED <<mainResult, channel, pyth_oracles, switchboard_oracles,
                   pythLock, switchboardLock, writerPc, writerUpdate, pythSubPc,
                   switchboardSubPc, balances, riskIdx, sent,
                   processed>>

\* main.rs:35-55, bot.rs:166-227  the errors start can return after the
\* first risk calculation
StartErrors ==
    {"InvalidMarginfiBank", "InvalidTokenAccount", "ClientTransactionError",
     "RpcError", "TransactionError", "JupiterApiError"}

\* main.rs:124-126  what the handle of the websocket task resolves to:
\* Ok(Ok(())), Ok(Err(WebsocketError)), or the JoinError of a panic, which
\* the unwrap turns into a panic of main
WebsocketResults == {"Ok", "WebsocketError", "panic"}

SelectResults_IgnoresSubscriptions ==
    (IF riskPc = "panicked" THEN {"panic"} ELSE {})
      \cup (IF riskPc = "failed" THEN StartErrors ELSE {})
      \cup (IF websocketPc = "ended" THEN WebsocketResults ELSE {})

\* main.rs:120-136  the results select! can return with: a task handle that
\* resolved with an Err gives that Err, one that panicked makes unwrap panic
SelectResults ==
    (IF riskPc = "panicked" THEN {"panic"} ELSE {})
      \cup (IF "failed" \in {pythSubPc, switchboardSubPc}
            THEN {"WebsocketError"} ELSE {})
      \cup (IF "panicked" \in {pythSubPc, switchboardSubPc}
            THEN {"panic"} ELSE {})
      \cup (IF riskPc = "failed" THEN StartErrors ELSE {})
      \cup (IF websocketPc = "ended" THEN WebsocketResults ELSE {})

MainSelect ==
    /\ UNCHANGED <<txVars, accVars, bankVars, websocketPc>>
    /\ mainPc = "select"
    /\ \E r \in SelectResults :
          /\ mainResult' = r
          /\ mainPc' = "exited"
    /\ UNCHANGED <<channel, pyth_oracles, switchboard_oracles, pythLock,
                   switchboardLock, writerPc, writerUpdate, pythSubPc,
                   switchboardSubPc, balances, riskPc, riskIdx,
                   sent, processed>>

(* ---------------------------------------------------------------------- *)
(* get_total_weighted_amount, the first risk calculation of the strategy   *)
(* ---------------------------------------------------------------------- *)
\* state.rs:590  the bank of the balance the loop is at
RiskBank == get_bank_by_mint(balances[riskIdx])

\* state.rs:208-219  get_oracle takes the lock of the partition of the type
RiskLock ==
    /\ UNCHANGED <<txVars, accVars, bankVars, websocketPc>>
    /\ mainPc = "select"
    /\ riskPc = "lock"
    /\ IF RiskBank.oracle_setup = "PythEma"
         THEN /\ pythLock = "free"
              /\ pythLock' = "strategy"
              /\ UNCHANGED switchboardLock
         ELSE /\ switchboardLock = "free"
              /\ switchboardLock' = "strategy"
              /\ UNCHANGED pythLock
    /\ riskPc' = "find"
    /\ UNCHANGED <<mainPc, mainResult, channel, pyth_oracles,
                   switchboard_oracles, writerPc, writerUpdate, pythSubPc,
                   switchboardSubPc, balances, riskIdx, sent,
                   processed>>

\* state.rs:203-229  what get_oracle returns for the bank
get_oracle(setup, address) ==
    IF setup = "PythEma" THEN Find(pyth_oracles, address)
                         ELSE Find(switchboard_oracles, address)

\* state.rs:589-600  the find, the release of the lock, the unwrap of the
\* Option, and the step to the next balance
RiskFind ==
    /\ UNCHANGED <<txVars, accVars, bankVars, websocketPc>>
    /\ mainPc = "select"
    /\ riskPc = "find"
    /\ IF RiskBank.oracle_setup = "PythEma"
         THEN pythLock' = "free" /\ UNCHANGED switchboardLock
         ELSE switchboardLock' = "free" /\ UNCHANGED pythLock
    /\ IF get_oracle(RiskBank.oracle_setup, RiskBank.oracle_address) = <<>>
         THEN /\ riskPc' = "panicked"
              /\ UNCHANGED riskIdx
         ELSE IF riskIdx = Len(balances)
              THEN /\ riskPc' = "done"
                   /\ UNCHANGED riskIdx
              ELSE /\ riskPc' = "lock"
                   /\ riskIdx' = riskIdx + 1
    /\ UNCHANGED <<mainPc, mainResult, channel, pyth_oracles,
                   switchboard_oracles, writerPc, writerUpdate, pythSubPc,
                   switchboardSubPc, balances, sent, processed>>

\* main.rs:96, 124-126  the task create_persisted_websocket_connection
\* spawned ends; its result is seen when select! takes the handle
WebsocketEnds ==
    /\ UNCHANGED <<txVars, accVars, bankVars>>
    /\ Running
    /\ websocketPc = "running"
    /\ websocketPc' = "ended"
    /\ UNCHANGED <<mainPc, mainResult, channel, pyth_oracles,
                   switchboard_oracles, pythLock, switchboardLock, writerPc,
                   writerUpdate, pythSubPc, switchboardSubPc, balances, riskPc,
                   riskIdx, sent, processed>>

\* bot.rs:166-227  after the first risk calculation a `?` of start returns
\* an error: the strategy task ends
StrategyEnds ==
    /\ UNCHANGED <<txVars, accVars, bankVars, websocketPc>>
    /\ mainPc = "select"
    /\ riskPc = "done"
    /\ riskPc' = "failed"
    /\ UNCHANGED <<mainPc, mainResult, channel, pyth_oracles,
                   switchboard_oracles, pythLock, switchboardLock, writerPc,
                   writerUpdate, pythSubPc, switchboardSubPc, balances,
                   riskIdx, sent, processed>>

CacheNext ==
    \/ WriterRecv
    \/ WriterLock
    \/ WriterUpsert
    \/ PythSubscribe
    \/ PythPayload
    \/ PythStreamEnds
    \/ MainInitSwitchboard
    \/ SwitchboardSubscribe
    \/ SwitchboardPayload
    \/ SwitchboardStreamEnds
    \/ MainSleep
    \/ MainSelect
    \/ RiskLock
    \/ RiskFind

CacheInit == CacheStart /\ TxIdle /\ AccDefault /\ BankIdle

SpecCache == CacheInit /\ [][CacheNext]_vars

(* ---------------------------------------------------------------------- *)
(* main and its five tasks                                                 *)
(* ---------------------------------------------------------------------- *)
MainNext ==
    \/ WriterRecv
    \/ WriterLock
    \/ WriterUpsert
    \/ PythSubscribe
    \/ PythPayload
    \/ PythStreamEnds
    \/ MainInitSwitchboard
    \/ SwitchboardSubscribe
    \/ SwitchboardPayload
    \/ SwitchboardStreamEnds
    \/ MainSleep
    \/ MainSelect
    \/ RiskLock
    \/ RiskFind
    \/ StrategyEnds
    \/ WebsocketEnds

\* as CacheInit, with the account holding the two balances
MainInit == CacheInit /\ balances = <<"usdt", "bsol">>

SpecMain == MainInit /\ [][MainNext]_vars

(* ---------------------------------------------------------------------- *)
(* I80F48 arithmetic: a value is the integer of its bits, v * ONE           *)
(* ---------------------------------------------------------------------- *)
\* state.rs:387  I80F48::ONE
ONE == 2 ^ FracBits

\* the operators * and / of I80F48 on non-negative values
Mul(a, b) == (a * b) \div ONE

Div(a, b) == (a * ONE) \div b

\* state.rs:457, 488  EXP_10_I80F48[k]
EXP_10_I80F48(k) == (10 ^ k) * ONE

\* state.rs:478  I80F48::from_num of a u64
from_num(n) == n * ONE

\* I80F48::ONE, * and / at the resolution kept for rates and ratios; the
\* quotient of two share counts is a ratio
RATE_ONE == 2 ^ RateFracBits

RMul(a, b) == (a * b) \div RATE_ONE

RDiv(a, b) == (a * RATE_ONE) \div b

\* bot.rs:60  I80F48::MAX, above every rate
I80F48_MAX == 2147483647

Min(a, b) == IF a <= b THEN a ELSE b

(* ---------------------------------------------------------------------- *)
(* MarginfiBank                                                             *)
(* ---------------------------------------------------------------------- *)
get_max_deposit_amount_FullWhenOverCap(bank, deposit_amount) ==
    IF from_num(bank.total_asset_value_init_limit) = 0
    THEN deposit_amount
    ELSE LET max_deposit_amount ==
                 Mul(from_num(bank.total_asset_value_init_limit),
                     EXP_10_I80F48(bank.mint_decimals))
             total_deposit_amount ==
                 Mul(bank.asset_share_value, bank.total_asset_shares)
         IN IF max_deposit_amount <= total_deposit_amount
            THEN deposit_amount
            ELSE Min(deposit_amount, max_deposit_amount - total_deposit_amount)

get_max_deposit_amount_IgnoresDeposits(bank, deposit_amount) ==
    IF from_num(bank.total_asset_value_init_limit) = 0
    THEN deposit_amount
    ELSE Min(deposit_amount,
             Mul(from_num(bank.total_asset_value_init_limit),
                 EXP_10_I80F48(bank.mint_decimals)))

get_max_deposit_amount_NoMin(bank, deposit_amount) ==
    IF from_num(bank.total_asset_value_init_limit) = 0
    THEN deposit_amount
    ELSE Mul(from_num(bank.total_asset_value_init_limit),
             EXP_10_I80F48(bank.mint_decimals))
            - Mul(bank.asset_share_value, bank.total_asset_shares)

\* state.rs:358-374  get_max_deposit_amount
get_max_deposit_amount(bank, deposit_amount) ==
    IF from_num(bank.total_asset_value_init_limit) = 0
    THEN deposit_amount
    ELSE LET max_deposit_amount ==
                 Mul(from_num(bank.total_asset_value_init_limit),
                     EXP_10_I80F48(bank.mint_decimals))
             total_deposit_amount ==
                 Mul(bank.asset_share_value, bank.total_asset_shares)
         IN IF max_deposit_amount <= total_deposit_amount
            THEN 0
            ELSE Min(deposit_amount, max_deposit_amount - total_deposit_amount)

\* what a call that can divide by zero gives: the value, or the panic
Returns(v) == [panic |-> FALSE, value |-> v]

Panics == [panic |-> TRUE, value |-> 0]

get_borrow_rate_LowerUsesMax(bank) ==
    IF bank.total_liability_shares = 0 THEN Returns(0)
    ELSE IF bank.total_asset_shares = 0 THEN Panics
    ELSE
      LET current_utilization ==
              RDiv(bank.total_liability_shares, bank.total_asset_shares)
      IN IF current_utilization <= bank.optimal_utilization_rate
         THEN IF bank.optimal_utilization_rate = 0 THEN Panics
              ELSE Returns(RMul(RDiv(current_utilization,
                                     bank.optimal_utilization_rate),
                                bank.max_interest_rate))
         ELSE LET u == current_utilization - bank.optimal_utilization_rate
                  l == RATE_ONE - bank.optimal_utilization_rate
              IN IF l = 0 THEN Panics
                 ELSE Returns(RMul(RDiv(u, l),
                                   bank.max_interest_rate
                                      - bank.plateau_interest_rate)
                              + bank.plateau_interest_rate)

get_borrow_rate_NoPlateau(bank) ==
    IF bank.total_liability_shares = 0 THEN Returns(0)
    ELSE IF bank.total_asset_shares = 0 THEN Panics
    ELSE
      LET current_utilization ==
              RDiv(bank.total_liability_shares, bank.total_asset_shares)
      IN IF current_utilization <= bank.optimal_utilization_rate
         THEN IF bank.optimal_utilization_rate = 0 THEN Panics
              ELSE Returns(RMul(RDiv(current_utilization,
                                     bank.optimal_utilization_rate),
                                bank.plateau_interest_rate))
         ELSE LET u == current_utilization - bank.optimal_utilization_rate
                  l == RATE_ONE - bank.optimal_utilization_rate
              IN IF l = 0 THEN Panics
                 ELSE Returns(RMul(RDiv(u, l),
                                   bank.max_interest_rate
                                      - bank.plateau_interest_rate))

\* state.rs:376-391  get_borrow_rate; the / of I80F48 panics on a zero
\* divisor (lines 381, 384, 388)
get_borrow_rate(bank) ==
    IF bank.total_liability_shares = 0 THEN Returns(0)
    ELSE IF bank.total_asset_shares = 0 THEN Panics
    ELSE
      LET current_utilization ==
              RDiv(bank.total_liability_shares, bank.total_asset_shares)
      IN IF current_utilization <= bank.optimal_utilization_rate
         THEN IF bank.optimal_utilization_rate = 0 THEN Panics
              ELSE Returns(RMul(RDiv(current_utilization,
                                     bank.optimal_utilization_rate),
                                bank.plateau_interest_rate))
         ELSE LET u == current_utilization - bank.optimal_utilization_rate
                  l == RATE_ONE - bank.optimal_utilization_rate
              IN IF l = 0 THEN Panics
                 ELSE Returns(RMul(RDiv(u, l),
                                   bank.max_interest_rate
                                      - bank.plateau_interest_rate)
                              + bank.plateau_interest_rate)

(* ---------------------------------------------------------------------- *)
(* MarginfiAccountWithBanks: the on-chain data it is built from             *)
(* ---------------------------------------------------------------------- *)
\* the banks fetched from the chain, (address, Bank); the I80F48 fields are
\* given by their bits, total_asset_value_init_limit is a u64
OnChainBanks ==
    << <<"bank_bsol",
         [mint |-> "bsol", mint_decimals |-> 0,
          total_asset_value_init_limit |-> 0,
          oracle_setup |-> "PythEma", oracle_address |-> "p1",
          asset_weight_init |-> ONE \div 2,
          liability_weight_init |-> ONE + (ONE \div 2),
          asset_share_value |-> 2 * ONE, liability_share_value |-> ONE,
          total_asset_shares |-> 8 * ONE, total_liability_shares |-> 4 * ONE,
          optimal_utilization_rate |-> RATE_ONE \div 2,
          plateau_interest_rate |-> RATE_ONE \div 4,
          max_interest_rate |-> 2 * RATE_ONE]>>,
       <<"bank_usdc",
         [mint |-> "usdc", mint_decimals |-> 0,
          total_asset_value_init_limit |-> 2,
          oracle_setup |-> "PythEma", oracle_address |-> "p2",
          asset_weight_init |-> ONE,
          liability_weight_init |-> ONE,
          asset_share_value |-> ONE, liability_share_value |-> ONE,
          total_asset_shares |-> 4 * ONE, total_liability_shares |-> 0,
          optimal_utilization_rate |-> RATE_ONE \div 2,
          plateau_interest_rate |-> RATE_ONE \div 4,
          max_interest_rate |-> 2 * RATE_ONE]>> >>

\* the same banks fetched again later: the shares of every bank have grown
RefreshedBanks ==
    [i \in 1..Len(OnChainBanks) |->
        <<OnChainBanks[i][1],
          [OnChainBanks[i][2] EXCEPT !.total_asset_shares = @ + ONE]>>]

\* the mints that have a bank: deposit and borrow unwrap get_bank_by_mint
AccMints == {OnChainBanks[i][2].mint : i \in 1..Len(OnChainBanks)}

\* marginfi_account::Balance: active, bank_pk, asset_shares, liability_shares
Balance(active, bank_pk, asset_shares, liability_shares) ==
    [active |-> active, bank_pk |-> bank_pk,
     asset_shares |-> asset_shares, liability_shares |-> liability_shares]

\* lending_account.balances of the on-chain accounts the object is built
\* from: empty; one deposit; a deposit and a loan followed by an unused slot;
\* a slot that is inactive but still names its bank; an active balance in a
\* bank that was not fetched (bank_x); a balance with both sides
OnChainAccounts ==
    { <<>>,
      <<Balance(TRUE, "bank_bsol", 2 * ONE, 0)>>,
      <<Balance(TRUE, "bank_bsol", 2 * ONE, 0),
        Balance(TRUE, "bank_usdc", 0, ONE),
        Balance(FALSE, "default", 0, 0)>>,
      <<Balance(FALSE, "bank_bsol", 0, 0)>>,
      <<Balance(TRUE, "bank_x", 2 * ONE, 0),
        Balance(TRUE, "bank_bsol", 2 * ONE, 0)>>,
      <<Balance(TRUE, "bank_usdc", 2 * ONE, ONE)>> }

\* the amounts deposit and borrow are called with
Amounts == {0, 2 * ONE}

\* what get_price_range of the feed of a bank's oracle gives:
\* Ok((lowest_price, highest_price)) or an Err
PriceRanges ==
    {[ok |-> TRUE, low |-> ONE, high |-> ONE],
     [ok |-> TRUE, low |-> ONE, high |-> 2 * ONE],
     [ok |-> FALSE, low |-> 0, high |-> 0]}

(* ---------------------------------------------------------------------- *)
(* MarginfiBank, MarginfiAccountBalance                                     *)
(* ---------------------------------------------------------------------- *)
\* state.rs:327-355  impl From<Bank> for MarginfiBank
MarginfiBank_from(bank) ==
    [mint |-> bank.mint,
     mint_decimals |-> bank.mint_decimals,
     total_asset_value_init_limit |-> bank.total_asset_value_init_limit,
     oracle_setup |-> bank.oracle_setup,
     oracle_address |-> bank.oracle_address,
     asset_weight_init |-> bank.asset_weight_init,
     liability_weight_init |-> bank.liability_weight_init,
     asset_share_value |-> bank.asset_share_value,
     liability_share_value |-> bank.liability_share_value,
     total_asset_shares |-> bank.total_asset_shares,
     total_liability_shares |-> bank.total_liability_shares,
     optimal_utilization_rate |-> bank.optimal_utilization_rate,
     plateau_interest_rate |-> bank.plateau_interest_rate,
     max_interest_rate |-> bank.max_interest_rate]

\* state.rs:405-417  MarginfiAccountBalance::new
MarginfiAccountBalance_new(balance, bank) ==
    [is_active |-> balance.active,
     asset_shares |-> balance.asset_shares,
     liability_shares |-> balance.liability_shares,
     bank_address |-> balance.bank_pk,
     asset_weight |-> bank.asset_weight_init,
     liabilities_weight |-> bank.liability_weight_init]

new_empty_DefaultAddress(bank_address, bank) ==
    [bank_address |-> "default",
     asset_shares |-> 0,
     liability_shares |-> 0,
     is_active |-> FALSE,
     asset_weight |-> bank.asset_weight_init,
     liabilities_weight |-> bank.liability_weight_init]

\* state.rs:419-428  MarginfiAccountBalance::new_empty
new_empty(bank_address, bank) ==
    [bank_address |-> bank_address,
     asset_shares |-> 0,
     liability_shares |-> 0,
     is_active |-> FALSE,
     asset_weight |-> bank.asset_weight_init,
     liabilities_weight |-> bank.liability_weight_init]

\* state.rs:266-278  calc_scaled_amount; weight is <<w>> for Some(w), <<>>
\* for None
calc_scaled_amount(amount, weight, price, scaling_factor) ==
    LET weighted == IF weight # <<>> THEN Mul(amount, weight[1]) ELSE amount
    IN Div(Mul(weighted, price), scaling_factor)

\* state.rs:430-439  get_amounts
get_amounts(balance, asset_share_value, liab_share_value) ==
    <<Mul(balance.asset_shares, asset_share_value),
      Mul(balance.liability_shares, liab_share_value)>>

get_weighted_amounts_RangeFirst(balance, bank, range) ==
    IF ~range.ok THEN [ok |-> FALSE, assets |-> 0, liabilities |-> 0]
    ELSE IF ~balance.is_active
    THEN [ok |-> TRUE, assets |-> 0, liabilities |-> 0]
    ELSE
      LET amounts == get_amounts(balance, bank.asset_share_value,
                                 bank.liability_share_value)
          scaling_factor == EXP_10_I80F48(bank.mint_decimals)
          total_assets ==
              calc_scaled_amount(amounts[1], <<balance.asset_weight>>,
                                 range.low, scaling_factor)
          total_liabilities ==
              calc_scaled_amount(amounts[2], <<balance.liabilities_weight>>,
                                 range.high, scaling_factor)
          bank_total_assets ==
              calc_scaled_amount(Mul(bank.total_asset_shares,
                                     bank.asset_share_value),
                                 <<>>, range.low, scaling_factor)
          limit == from_num(bank.total_asset_value_init_limit)
          discounted ==
              IF bank.total_asset_value_init_limit # 0
                 /\ bank_total_assets > limit
              THEN Mul(total_assets, Div(limit, bank_total_assets))
              ELSE total_assets
      IN [ok |-> TRUE,
          assets |-> Mul(discounted, EXP_10_I80F48(6)),
          liabilities |-> Mul(total_liabilities, EXP_10_I80F48(6))]

\* state.rs:441-491  get_weighted_amounts with the price range of the
\* bank's oracle: [ok, assets, liabilities], ok = FALSE for the Err
get_weighted_amounts(balance, bank, range) ==
    IF ~balance.is_active THEN [ok |-> TRUE, assets |-> 0, liabilities |-> 0]
    ELSE IF ~range.ok THEN [ok |-> FALSE, assets |-> 0, liabilities |-> 0]
    ELSE
      LET amounts == get_amounts(balance, bank.asset_share_value,
                                 bank.liability_share_value)
          scaling_factor == EXP_10_I80F48(bank.mint_decimals)
          total_assets ==
              calc_scaled_amount(amounts[1], <<balance.asset_weight>>,
                                 range.low, scaling_factor)
          total_liabilities ==
              calc_scaled_amount(amounts[2], <<balance.liabilities_weight>>,
                                 range.high, scaling_factor)
          bank_total_assets ==
              calc_scaled_amount(Mul(bank.total_asset_shares,
                                     bank.asset_share_value),
                                 <<>>, range.low, scaling_factor)
          limit == from_num(bank.total_asset_value_init_limit)
          discounted ==
              IF bank.total_asset_value_init_limit # 0
                 /\ bank_total_assets > limit
              THEN Mul(total_assets, Div(limit, bank_total_assets))
              ELSE total_assets
      IN [ok |-> TRUE,
          assets |-> Mul(discounted, EXP_10_I80F48(6)),
          liabilities |-> Mul(total_liabilities, EXP_10_I80F48(6))]

(* ---------------------------------------------------------------------- *)
(* MarginfiAccountWithBanks                                                 *)
(* ---------------------------------------------------------------------- *)
\* state.rs:568-573  get_bank_by_address: <<bank>> for Some, <<>> for None
get_bank_by_address(banks, address) == Find(banks, address)

\* state.rs:564-566  get_bank_by_mint on the banks of the object:
\* <<(address, bank)>> for Some, <<>> for None
find_bank_by_mint(banks, mint) ==
    IF \E i \in 1..Len(banks) : banks[i][2].mint = mint
    THEN <<banks[CHOOSE i \in 1..Len(banks) :
                    /\ banks[i][2].mint = mint
                    /\ \A j \in 1..(i - 1) : banks[j][2].mint # mint]>>
    ELSE <<>>

\* bot.rs:62-66  the candidates, in the order of the loop
BorrowMints == <<"usdc", "usdt", "uxd">>

\* bot.rs:56-79  get_best_bank_for_borrow on the banks of the object: the
\* loop keeps (mint_address, lowest_borrow_rate, bank); value is
\* (mint_address, bank).  unwrap panics when a candidate has no bank
\* (line 67) or when no candidate was taken (line 78), get_borrow_rate can
\* panic (line 68).
get_best_bank_for_borrow(banks) ==
    LET RECURSIVE Loop(_, _, _, _)
        Loop(i, mint_address, lowest_borrow_rate, bank) ==
            IF i > Len(BorrowMints)
            THEN IF bank = <<>> THEN Panics
                 ELSE Returns(<<mint_address, bank[1]>>)
            ELSE IF find_bank_by_mint(banks, BorrowMints[i]) = <<>> THEN Panics
            ELSE
              LET current_bank == find_bank_by_mint(banks, BorrowMints[i])[1][2]
                  borrow_rate == get_borrow_rate(current_bank)
              IN IF borrow_rate.panic THEN Panics
                 ELSE IF borrow_rate.value < lowest_borrow_rate
                 THEN Loop(i + 1, BorrowMints[i], borrow_rate.value,
                           <<current_bank>>)
                 ELSE Loop(i + 1, mint_address, lowest_borrow_rate, bank)
    IN Loop(1, "default", I80F48_MAX, <<>>)

\* state.rs:511-516  update_banks pushes every fetched bank
update_banks(banks, on_chain_banks) ==
    banks \o [i \in 1..Len(on_chain_banks) |->
                 <<on_chain_banks[i][1], MarginfiBank_from(on_chain_banks[i][2])>>]

\* state.rs:518-530  update_balances starts from vec![] and pushes a balance
\* for every on-chain balance whose bank get_bank_by_address finds
update_balances(banks, on_chain_balances) ==
    LET RECURSIVE Collect(_)
        Collect(i) ==
            IF i > Len(on_chain_balances) THEN <<>>
            ELSE LET balance == on_chain_balances[i]
                     bank == get_bank_by_address(banks, balance.bank_pk)
                 IN IF bank # <<>>
                    THEN << <<bank[1].mint,
                              MarginfiAccountBalance_new(balance, bank[1])>> >>
                           \o Collect(i + 1)
                    ELSE Collect(i + 1)
    IN Collect(1)

\* state.rs:532-546  deposit; a is the object, the result is the object after
deposit(a, amount, mint) ==
    LET found == find_bank_by_mint(a.banks, mint)[1]
        bank_address == found[1]
        bank == found[2]
        asset_shares == Div(amount, bank.asset_share_value)
        i == Position(a.balances, mint)
    IN IF i # 0
       THEN [a EXCEPT !.balances[i][2].asset_shares = @ + asset_shares]
       ELSE [a EXCEPT !.balances =
                Append(@, <<mint, [new_empty(bank_address, bank) EXCEPT
                                      !.is_active = TRUE,
                                      !.asset_shares = asset_shares]>>)]

\* state.rs:548-562  borrow: the branch of an existing balance assigns
\* asset_shares (line 554), the other branch assigns liabilities_weight
\* (line 558)
borrow(a, amount, mint) ==
    LET found == find_bank_by_mint(a.banks, mint)[1]
        bank_address == found[1]
        bank == found[2]
        liability_shares == Div(amount, bank.liability_share_value)
        i == Position(a.balances, mint)
    IN IF i # 0
       THEN [a EXCEPT !.balances[i][2].asset_shares =
                a.balances[i][2].liability_shares + liability_shares]
       ELSE [a EXCEPT !.balances =
                Append(@, <<mint, [new_empty(bank_address, bank) EXCEPT
                                      !.is_active = TRUE,
                                      !.liabilities_weight = liability_shares]>>)]

\* state.rs:582-603  get_total_weighted_amount; ranges gives the price range
\* of the oracle of the bank of each mint.  The ? of line 596 returns the Err
\* of the first balance that has one.
get_total_weighted_amount(a, ranges) ==
    LET RECURSIVE Loop(_, _, _)
        Loop(i, total_assets, total_liabilities) ==
            IF i > Len(a.balances)
            THEN [status |-> "ok", assets |-> total_assets,
                  liabilities |-> total_liabilities]
            ELSE LET mint == a.balances[i][1]
                     balance == a.balances[i][2]
                     bank == find_bank_by_mint(a.banks, mint)[1][2]
                     w == get_weighted_amounts(balance, bank, ranges[mint])
                 IN IF ~w.ok
                    THEN [status |-> "err", assets |-> 0, liabilities |-> 0]
                    ELSE Loop(i + 1, total_assets + w.assets,
                              Mul(total_liabilities, w.liabilities))
    IN Loop(1, 0, 0)

(* ---------------------------------------------------------------------- *)
(* bot::start: the instructions of the first transaction                   *)
(* ---------------------------------------------------------------------- *)
\* a bank one of the mints can be borrowed from, at its optimal utilization,
\* where its borrow rate is its plateau rate
BorrowBank(mint, plateau) ==
    [mint |-> mint, mint_decimals |-> 0,
     total_asset_value_init_limit |-> 0,
     oracle_setup |-> "PythEma", oracle_address |-> "p2",
     asset_weight_init |-> ONE, liability_weight_init |-> ONE,
     asset_share_value |-> ONE, liability_share_value |-> ONE,
     total_asset_shares |-> 8 * ONE, total_liability_shares |-> 4 * ONE,
     optimal_utilization_rate |-> RATE_ONE \div 2,
     plateau_interest_rate |-> plateau,
     max_interest_rate |-> 2 * RATE_ONE]

\* initial_marginfi_banks: the bSOL bank and the banks of the three mints
\* that can be borrowed, with each of the three as the cheapest in turn
InitialBanks ==
    { <<OnChainBanks[1],
        <<"bank_usdc", BorrowBank("usdc", rates[1])>>,
        <<"bank_usdt", BorrowBank("usdt", rates[2])>>,
        <<"bank_uxd", BorrowBank("uxd", rates[3])>> >> :
      rates \in { <<(2 * RATE_ONE) \div 100, (6 * RATE_ONE) \div 100,
                    (9 * RATE_ONE) \div 100>>,
                  <<(6 * RATE_ONE) \div 100, (2 * RATE_ONE) \div 100,
                    (9 * RATE_ONE) \div 100>>,
                  <<(9 * RATE_ONE) \div 100, (6 * RATE_ONE) \div 100,
                    (2 * RATE_ONE) \div 100>> } }

\* initial_marginfi_account: no balance, or bSOL deposited earlier
InitialAccounts == { <<>>, <<Balance(TRUE, "bank_bsol", 2 * ONE, 0)>> }

\* args.bsol_amount, in whole tokens
BsolAmounts == {2}

\* what get_oracle finds for the oracle of a bank, <<>> for None, and what
\* get_price_range gives for it
Oracles == {<<>>} \cup {<<range>> : range \in PriceRanges}

\* what marginfi_deposit and marginfi_borrow return: the instruction, or the
\* error of get_marginfi_bank or get_token_account
BuilderResults == {"Ok", "InvalidMarginfiBank", "InvalidTokenAccount"}

\* I80F48::to_num::<u64>()
to_num(x) == x \div ONE

\* what the two create_ calls leave: how the risk calculation ended, the
\* Result, and the (amount, mint) of an Ok
Created(risk_status, r, amount, mint) ==
    [risk |-> risk_status, result |-> r, amount |-> amount, mint |-> mint]

\* bot.rs:115-140  create_marginfi_borrow_instructions on the account a
create_marginfi_borrow_instructions(a, oracle, borrow_ix) ==
    IF a.balances # <<>> /\ oracle = <<>>
    THEN Created("panic", "panic", 0, "none")
    ELSE
      LET ranges == [mint \in {a.balances[i][1] : i \in 1..Len(a.balances)}
                        |-> oracle[1]]
          total == get_total_weighted_amount(a, ranges)
          best == get_best_bank_for_borrow(a.banks)
      IN IF total.status = "err"
         THEN Created("err", "UnableToParsePythOracle", 0, "none")
         ELSE IF best.panic THEN Created("ok", "panic", 0, "none")
         ELSE
           LET mint_to_borrow == best.value[1]
               bank_for_borrow == best.value[2]
               free_amount == total.assets
               borrow_amount == (free_amount * 9) \div 10
               borrow_amount_weighted ==
                   Div(borrow_amount, bank_for_borrow.liability_weight_init)
           IN IF borrow_ix # "Ok"
              THEN Created("ok", borrow_ix, 0, "none")
              ELSE Created("ok", "Ok", to_num(borrow_amount_weighted),
                           mint_to_borrow)

\* bot.rs:81-112  create_marginfi_deposit_instructions on the account a:
\* the account after it and what it returns
create_marginfi_deposit_instructions(a, bsol_amount, deposit_ix) ==
    LET bank == find_bank_by_mint(a.banks, "bsol")[1][2]
        i == Position(a.balances, "bsol")
        account_amount ==
            IF i # 0
            THEN to_num(get_amounts(a.balances[i][2], bank.asset_share_value,
                                    bank.liability_share_value)[1])
            ELSE 0
        deposit_amount ==
            get_max_deposit_amount(bank, from_num(bsol_amount - account_amount))
    IN IF account_amount < bsol_amount
       THEN [account |-> deposit(a, deposit_amount, "bsol"), result |-> deposit_ix]
       ELSE [account |-> a, result |-> "Ok"]

\* bot.rs:155-174  what start has after new and the two create_ calls
create_instructions(account, banks, oracle, bsol_amount, deposit_ix, borrow_ix) ==
    LET account_with_banks ==
            [banks |-> update_banks(<<>>, banks),
             balances |-> update_balances(update_banks(<<>>, banks), account)]
        deposited ==
            create_marginfi_deposit_instructions(account_with_banks,
                                                 bsol_amount, deposit_ix)
    IN IF deposited.result # "Ok"
       THEN Created("none", deposited.result, 0, "none")
       ELSE create_marginfi_borrow_instructions(deposited.account, oracle,
                                                borrow_ix)

AfterCreate_IgnoresError(r) == "deposit_borrow"

\* bot.rs:166, 174  the `?` after the two create_ calls; a panic ends the task
AfterCreate(r) ==
    IF r = "Ok" THEN "deposit_borrow"
    ELSE IF r = "panic" THEN "panicked"
    ELSE "failed"

\* bot.rs:155-174  start builds the account object and the instructions of
\* the deposit and of the borrow
StartCreateInstructions ==
    /\ UNCHANGED <<cacheVars, accVars, bankVars>>
    /\ pc = "idle"
    /\ step = "create_instructions"
    /\ \E account \in InitialAccounts, banks \in InitialBanks,
          oracle \in Oracles, bsol_amount \in BsolAmounts,
          deposit_ix \in BuilderResults, borrow_ix \in BuilderResults :
          LET created == create_instructions(account, banks, oracle,
                                             bsol_amount, deposit_ix, borrow_ix)
          IN /\ risk' = created.risk
             /\ borrowed_mint' = created.mint
             /\ borrowed_amount' = created.amount
             /\ step' = AfterCreate(created.result)
             /\ startResult' = IF created.result = "Ok" THEN "none"
                               ELSE created.result
    /\ UNCHANGED <<pool_supply_amount, farm_supply_amount, ixAmounts,
                   tokenChanges, printed, callLog, sentSteps, pc, alts, tx,
                   retries, nextTxId, result, cause, submitted, cycles, chain>>
    /\ UNCHANGED pollVars

TxNext ==
    \/ StartCreateInstructions
    \/ StartCall
    \/ StartFetchSwapFails
    \/ StartMeteoraFails
    \/ StartReturn
    \/ FsiFirstBuild
    \/ FsiLoopHead
    \/ SacSend
    \/ SacPollHead
    \/ SacLookup
    \/ FsiMatch
    \/ ChainLands

TxInit == TxStart /\ CacheIdle /\ AccDefault /\ BankIdle

SpecTx == TxInit /\ [][TxNext]_vars

(* ---------------------------------------------------------------------- *)
(* The operations on one MarginfiAccountWithBanks                           *)
(* ---------------------------------------------------------------------- *)
Called(op, mint, amount) ==
    /\ accOp' = [op |-> op, mint |-> mint, amount |-> amount]
    /\ accOps' = accOps + 1

\* state.rs:501-509  new: default, update_banks, update_balances
AccNew ==
    /\ UNCHANGED <<txVars, cacheVars, bankVars>>
    /\ accPc = "default"
    /\ \E account \in OnChainAccounts :
          /\ acc' = [banks |-> update_banks(acc.banks, OnChainBanks),
                     balances |-> update_balances(
                                     update_banks(acc.banks, OnChainBanks),
                                     account)]
          /\ onChain' = account
    /\ accPc' = "ready"
    /\ accOp' = [op |-> "new", mint |-> "none", amount |-> 0]
    /\ UNCHANGED <<accOps, totals>>

\* state.rs:511-516  update_banks with a new fetch of the banks
AccUpdateBanks ==
    /\ UNCHANGED <<txVars, cacheVars, bankVars>>
    /\ accPc = "ready"
    /\ accOps < MaxOps
    /\ acc' = [acc EXCEPT !.banks = update_banks(@, RefreshedBanks)]
    /\ Called("update_banks", "none", 0)
    /\ UNCHANGED <<accPc, onChain, totals>>

\* state.rs:518-530  update_balances with a new fetch of the account
AccUpdateBalances ==
    /\ UNCHANGED <<txVars, cacheVars, bankVars>>
    /\ accPc = "ready"
    /\ accOps < MaxOps
    /\ \E account \in OnChainAccounts :
          /\ acc' = [acc EXCEPT !.balances = update_balances(acc.banks, account)]
          /\ onChain' = account
    /\ Called("update_balances", "none", 0)
    /\ UNCHANGED <<accPc, totals>>

\* state.rs:532-546  deposit(amount, mint)
AccDeposit ==
    /\ UNCHANGED <<txVars, cacheVars, bankVars>>
    /\ accPc = "ready"
    /\ accOps < MaxOps
    /\ \E mint \in AccMints, amount \in Amounts :
          /\ acc' = deposit(acc, amount, mint)
          /\ Called("deposit", mint, amount)
    /\ UNCHANGED <<accPc, onChain, totals>>

\* state.rs:548-562  borrow(amount, mint)
AccBorrow ==
    /\ UNCHANGED <<txVars, cacheVars, bankVars>>
    /\ accPc = "ready"
    /\ accOps < MaxOps
    /\ \E mint \in AccMints, amount \in Amounts :
          /\ acc' = borrow(acc, amount, mint)
          /\ Called("borrow", mint, amount)
    /\ UNCHANGED <<accPc, onChain, totals>>

\* state.rs:582-603  get_total_weighted_amount with the feeds the cache holds
AccTotal ==
    /\ UNCHANGED <<txVars, cacheVars, bankVars>>
    /\ accPc = "ready"
    /\ \E ranges \in [AccMints -> PriceRanges] :
          totals' = [returned |-> get_total_weighted_amount(acc, ranges),
                     ranges |-> ranges]
    /\ UNCHANGED <<acc, accPc, onChain, accOp, accOps>>

AccNext ==
    \/ AccNew
    \/ AccUpdateBanks
    \/ AccUpdateBalances
    \/ AccDeposit
    \/ AccBorrow
    \/ AccTotal

AccInit == TxIdle /\ CacheIdle /\ AccDefault /\ BankIdle

SpecAccount == AccInit /\ [][AccNext]_vars

(* ---------------------------------------------------------------------- *)
(* get_max_deposit_amount, get_borrow_rate and get_best_bank_for_borrow as  *)
(* functions of the banks they are given                                    *)
(* ---------------------------------------------------------------------- *)
\* a MarginfiBank with the fields the three functions read; the mint is set
\* when the bank is put into a bank set
BankWith(limit, decimals, share_value, assets, liabilities, optimal, plateau, max) ==
    [mint |-> "none", mint_decimals |-> decimals,
     total_asset_value_init_limit |-> limit,
     oracle_setup |-> "PythEma", oracle_address |-> "none",
     asset_weight_init |-> ONE, liability_weight_init |-> ONE,
     asset_share_value |-> share_value, liability_share_value |-> ONE,
     total_asset_shares |-> assets, total_liability_shares |-> liabilities,
     optimal_utilization_rate |-> optimal,
     plateau_interest_rate |-> plateau,
     max_interest_rate |-> max]

\* a bank with total_asset_shares of RATE_ONE bits, so that the utilization
\* of line 381 has the bits of total_liability_shares
RateBank(limit, liabilities, optimal, plateau, max) ==
    BankWith(limit, 0, ONE, RATE_ONE, liabilities, optimal, plateau, max)

\* the banks the functions are applied to:
\*   nothing borrowed; utilization 50 %, optimal 80 %, plateau 0.10, max 0.50;
\*   utilization one step below, at, and one step above an optimal of 50 %;
\*   utilization 75 % above an optimal of 50 %, capped;
\*   utilization at the optimal with plateau 0.06, 0.02 and 0.09;
\*   liabilities but no assets;
\*   cap 1,000,000 with 900,000 deposited; a cap below the deposits; a cap
\*   of 1 with one decimal and 4 deposited
BankInputs ==
    { RateBank(0, 0, RATE_ONE \div 2, RATE_ONE \div 10, RATE_ONE \div 2),
      RateBank(0, RATE_ONE \div 2, (8 * RATE_ONE) \div 10, RATE_ONE \div 10,
               RATE_ONE \div 2),
      RateBank(0, (RATE_ONE \div 2) - 1, RATE_ONE \div 2, RATE_ONE \div 10,
               RATE_ONE \div 2),
      RateBank(0, RATE_ONE \div 2, RATE_ONE \div 2, RATE_ONE \div 10,
               RATE_ONE \div 2),
      RateBank(0, (RATE_ONE \div 2) + 1, RATE_ONE \div 2, RATE_ONE \div 10,
               RATE_ONE \div 2),
      RateBank(300, (3 * RATE_ONE) \div 4, RATE_ONE \div 2, RATE_ONE \div 10,
               RATE_ONE \div 2),
      RateBank(0, RATE_ONE \div 2, RATE_ONE \div 2, (6 * RATE_ONE) \div 100,
               RATE_ONE \div 2),
      RateBank(0, RATE_ONE \div 2, RATE_ONE \div 2, (2 * RATE_ONE) \div 100,
               RATE_ONE \div 2),
      RateBank(0, RATE_ONE \div 2, RATE_ONE \div 2, (9 * RATE_ONE) \div 100,
               RATE_ONE \div 2),
      BankWith(0, 0, ONE, 0, RATE_ONE \div 2, RATE_ONE \div 2,
               RATE_ONE \div 10, RATE_ONE \div 2),
      BankWith(1000000, 0, ONE, 900000 * ONE, 0, RATE_ONE \div 2,
               RATE_ONE \div 10, RATE_ONE \div 2),
      BankWith(2, 0, 2 * ONE, 4 * ONE, 0, RATE_ONE \div 2,
               RATE_ONE \div 10, RATE_ONE \div 2),
      BankWith(1, 1, ONE, 4 * ONE, 0, RATE_ONE \div 2,
               RATE_ONE \div 10, RATE_ONE \div 2) }

\* the banks of the three candidates as account_with_banks.banks holds them
BankSetOf(f) ==
    [i \in 1..Len(BorrowMints) |->
        <<BorrowMints[i], [f[i] EXCEPT !.mint = BorrowMints[i]]>>]

\* the token amounts get_max_deposit_amount is asked for
Requests == {0, 3 * ONE, 50 * ONE, 200000 * ONE}

BankOf(mint) == find_bank_by_mint(bankSet, mint)[1][2]

\* state.rs:376-391  get_borrow_rate of the bank of a candidate
BankBorrowRate ==
    /\ UNCHANGED <<txVars, cacheVars, accVars>>
    /\ \E mint \in Range(BorrowMints) :
          bankCall' = [fn |-> "get_borrow_rate", mint |-> mint, requested |-> 0,
                       panic |-> get_borrow_rate(BankOf(mint)).panic,
                       value |-> get_borrow_rate(BankOf(mint)).value]
    /\ UNCHANGED bankSet

\* state.rs:358-374  get_max_deposit_amount of the bank of a candidate
BankMaxDeposit ==
    /\ UNCHANGED <<txVars, cacheVars, accVars>>
    /\ \E mint \in Range(BorrowMints), requested \in Requests :
          bankCall' = [fn |-> "get_max_deposit_amount", mint |-> mint,
                       requested |-> requested, panic |-> FALSE,
                       value |-> get_max_deposit_amount(BankOf(mint), requested)]
    /\ UNCHANGED bankSet

\* bot.rs:56-79  get_best_bank_for_borrow; mint is the mint it returns
BankBest ==
    /\ UNCHANGED <<txVars, cacheVars, accVars>>
    /\ LET best == get_best_bank_for_borrow(bankSet) IN
          bankCall' = [fn |-> "get_best_bank_for_borrow",
                       mint |-> IF best.panic THEN "none" ELSE best.value[1],
                       requested |-> 0, panic |-> best.panic,
                       value |-> IF best.panic THEN 0
                                 ELSE get_borrow_rate(best.value[2]).value]
    /\ UNCHANGED bankSet

BankNext ==
    \/ BankBorrowRate
    \/ BankMaxDeposit
    \/ BankBest

BankInit ==
    /\ TxIdle
    /\ CacheIdle
    /\ AccDefault
    /\ bankSet \in {BankSetOf(f) : f \in [1..Len(BorrowMints) -> BankInputs]}
    /\ bankCall = NoCall

SpecBank == BankInit /\ [][BankNext]_vars

(* ---------------------------------------------------------------------- *)
(* Properties of the transaction execution pipeline                        *)
(* ---------------------------------------------------------------------- *)
StepIndex(s) == CHOOSE k \in 1..Len(StepOrder) : StepOrder[k] = s

\* C1: the transaction submitted on attempt n is built with the supplied
\* lookup tables when n is even and the table list is non-empty, and without
\* them when n is odd.
C1_AlternatesLookupTables ==
    \A i \in 1..Len(submitted) :
        /\ (submitted[i].attempt % 2 = 0 /\ alts # {}
               => submitted[i].tx.alts = alts)
        /\ (submitted[i].attempt % 2 = 1 => submitted[i].tx.alts = {})

\* C2: every submit is preceded by a new build made after the previous
\* attempt timed out: the n-th submit of a call sends a transaction object
\* that no earlier submit of the call has sent.
C2_NeverResubmits ==
    \A i, j \in 1..Len(submitted) :
        i < j => submitted[i].tx.id # submitted[j].tx.id

\* C3: once a cycle has ended in Error the call returns Err(TransactionError)
\* and builds and submits nothing more: the Error cycle is the last cycle, the
\* submit of that cycle is the last submit, and the latest transaction built
\* is the one that was submitted.
C3_ErrorIsFatal ==
    \A i \in 1..Len(cycles) :
        cycles[i] = "Error" =>
            /\ i = Len(cycles)
            /\ Len(submitted) = i
            /\ tx = submitted[i].tx
            /\ nextTxId = tx.id + 1
            /\ pc \in {"match", "returned", "done"}
            /\ (pc # "match" => result = "TransactionError")

C3_Witness ==
    /\ pc = "returned"
    /\ cycles # <<>>
    /\ Last(cycles) = "Error"
    /\ Len(cycles) >= 2

\* C4: a cycle that ends in Timeout does not end the call and is followed by
\* another submit unless the rebuild or the RPC fails; the call returns only
\* after a cycle that ended in Success or Error, or after a failed build or
\* RPC call.
C4_TimeoutRetries ==
    /\ (pc \in {"returned", "done"} /\ result # "none" =>
           \/ /\ cause = "cycle"
              /\ cycles # <<>>
              /\ Last(cycles) \in {"Success", "Error"}
           \/ cause \in {"build", "rpc"})
    /\ \A i \in 1..Len(cycles) :
           cycles[i] = "Timeout" =>
               \/ Len(submitted) > i
               \/ pc \in {"match", "loop_head", "send"}
               \/ (pc \in {"returned", "done"} /\ cause \in {"build", "rpc"})

C4_Witness ==
    /\ Len(cycles) >= 1
    /\ cycles[1] = "Timeout"
    /\ Len(submitted) >= 2
    /\ pc = "poll_head"

\* C5: when a force_send_instructions call of bot::start ends with an
\* on-chain transaction error, that call is the last one, the strategy task
\* returns the error, and no later step has submitted a transaction.
C5_ErrorAbortsStrategy ==
    \A i \in 1..Len(callLog) :
        callLog[i][2] = "TransactionError" =>
            /\ i = Len(callLog)
            /\ pc \in {"returned", "done"}
            /\ (pc = "done" => step = "failed" /\ startResult = "TransactionError")
            /\ \A s \in sentSteps : StepIndex(s) <= StepIndex(callLog[i][1])

C5_Witness ==
    /\ pc = "done"
    /\ startResult = "TransactionError"
    /\ cause = "cycle"
    /\ Len(callLog) >= 2

\* C6: polls are at least POLL_TIMEOUT apart, no poll is made once more than
\* TX_VALIDITY_DURATION has elapsed, so the number of polls is bounded;
\* a Timeout is returned only after the deadline and carries the submitted
\* signature; Success or Error is returned only for a transaction whose
\* status has become available.
C6_TimeoutAfterDeadline ==
    /\ polls * POLL_TIMEOUT <= elapsed
    /\ polls <= (TX_VALIDITY_DURATION \div POLL_TIMEOUT) + 1
    /\ (pc = "lookup" => elapsed <= TX_VALIDITY_DURATION + POLL_TIMEOUT)
    /\ (outcome.kind = "Timeout" =>
           /\ elapsed > TX_VALIDITY_DURATION
           /\ outcome.sig = Last(submitted).tx.id)
    /\ (outcome.kind \in {"Success", "Error"} => chain[outcome.sig] # "pending")

C6_Witness ==
    /\ pc = "match"
    /\ outcome.kind = "Timeout"
    /\ chain[outcome.sig] = "pending"
    /\ polls >= 2

\* C7: after a status lookup that failed with the SerdeJson kind the poll
\* loop is still running (and ends only in Timeout when the deadline has
\* passed); after a lookup that failed with any other client error the call
\* has ended with RpcError and no TransactionResult was produced.
C7_TransientLookupErrors ==
    /\ (lastLookup = "SerdeJson" =>
           /\ outcome.kind \in {"none", "Timeout"}
           /\ (outcome.kind = "none" =>
                  pc \in {"poll_head", "lookup"} /\ result = "none"))
    /\ (lastLookup = "OtherErr" =>
           /\ pc \in {"returned", "done"}
           /\ result = "RpcError"
           /\ outcome = NoOutcome
           /\ Len(cycles) < Len(submitted))

C7_Witness ==
    /\ lastLookup = "OtherErr"
    /\ polls >= 2

(* ---------------------------------------------------------------------- *)
(* Properties of the oracle cache                                          *)
(* ---------------------------------------------------------------------- *)
\* the feed of the last update the writer has applied for an address of a
\* type, <<>> when it has applied none
LastProcessed(type, a) ==
    LET idx == {i \in 1..Len(processed) :
                   processed[i].type = type /\ processed[i].address = a}
    IN IF idx = {} THEN <<>>
       ELSE <<processed[CHOOSE i \in idx : \A j \in idx : j <= i].feed>>

InFlight == IF writerUpdate = NoUpdate THEN <<>> ELSE <<writerUpdate>>

\* C8: for each partition and each oracle address the cached feed is the
\* feed of the last update applied for that address (absent when there is
\* none), and the updates applied, the one in the writer's hands and those
\* still queued are exactly the updates sent, in the order sent: none is
\* skipped or reordered.
C8_AppliedInDeliveryOrder ==
    /\ \A a \in PythAccounts :
           Find(pyth_oracles, a) = LastProcessed("PythOracle", a)
    /\ \A a \in SwitchboardAccounts :
           Find(switchboard_oracles, a) = LastProcessed("SwitchboardOracle", a)
    /\ sent = processed \o InFlight \o channel

C8_Witness ==
    /\ Len(processed) >= 3
    /\ Len(switchboard_oracles) >= 1
    /\ \E i, j \in 1..Len(processed) :
          /\ i < j
          /\ processed[i].type = "PythOracle"
          /\ processed[j].type = "PythOracle"
          /\ processed[i].address = processed[j].address
          /\ processed[i].feed # processed[j].feed
    /\ writerPc = "recv"

\* C9: whenever the writer applies an update, whether its address was
\* present or absent before, applying the same update once more to the
\* resulting partitions changes nothing; and when the update is the one the
\* writer applied last, this application itself leaves both partitions
\* exactly as they were.
C9_UpsertIdempotent ==
    [][(writerPc = "upsert" /\ writerPc' = "recv") =>
          LET after == IF writerUpdate.type = "PythOracle"
                       THEN pyth_oracles' ELSE switchboard_oracles'
          IN /\ Upsert(after, writerUpdate.address, writerUpdate.feed) = after
             /\ (processed # <<>> /\ Last(processed) = writerUpdate
                    => /\ pyth_oracles' = pyth_oracles
                       /\ switchboard_oracles' = switchboard_oracles)]_vars

C9_Witness ==
    /\ Len(processed) >= 2
    /\ processed[Len(processed)] = processed[Len(processed) - 1]
    /\ writerPc = "recv"

\* C10: while the first risk calculation runs, the cache holds a feed for
\* the oracle of the bank of every balance it has still to look up, Pyth and
\* Switchboard alike, and no lookup has come back absent.
C10_FeedsPresentAtFirstRisk ==
    /\ riskPc # "panicked"
    /\ (riskPc \in {"lock", "find"} =>
           \A i \in riskIdx..Len(balances) :
               get_oracle(get_bank_by_mint(balances[i]).oracle_setup,
                          get_bank_by_mint(balances[i]).oracle_address) # <<>>)

\* C11: a payload for a watched oracle that cannot be decoded is dropped:
\* no subscription task is ended by it, so the tasks, the writer and the
\* process go on and later valid updates are still applied.
C11_BadPayloadDropped ==
    /\ pythSubPc # "panicked"
    /\ switchboardSubPc # "panicked"

\* the partition of an oracle type
LockOf(setup) == IF setup = "PythEma" THEN pythLock ELSE switchboardLock

\* the tasks that are suspended on a network operation or on the channel:
\* the writer in recv, a subscription task in subscribe or in stream.next,
\* main in the bulk fetch or the sleep, the strategy outside get_oracle
Suspended ==
    (IF writerPc = "recv" THEN {"writer"} ELSE {})
      \cup (IF riskPc \in {"idle", "done", "panicked"} THEN {"strategy"} ELSE {})
      \cup {"pyth_subscription", "switchboard_subscription", "main"}

\* C12: a task that is suspended on a network operation or on the channel
\* holds neither partition lock; the writer holds the lock of the partition
\* of its update, and only while it upserts that one update; the strategy
\* holds the lock of the partition of the bank it is at, and only during
\* that one lookup.
C12_LocksOnlyAroundOneAccess ==
    /\ pythLock \notin Suspended
    /\ switchboardLock \notin Suspended
    /\ \A l \in {"PythEma", "SwitchboardV2"} :
          /\ LockOf(l) \in {"free", "writer", "strategy"}
          /\ (LockOf(l) = "writer" =>
                 /\ writerPc = "upsert"
                 /\ writerUpdate.type =
                       (IF l = "PythEma" THEN "PythOracle" ELSE "SwitchboardOracle"))
          /\ (LockOf(l) = "strategy" =>
                 /\ riskPc = "find"
                 /\ RiskBank.oracle_setup = l)

C12_Witness ==
    /\ pythLock = "writer"
    /\ switchboardLock = "strategy"
    /\ pythSubPc = "stream"
    /\ switchboardSubPc = "stream"

\* the feeds of the updates of a type for an address the writer has applied
ProcessedFeeds(type, a) ==
    {processed[i].feed : i \in {j \in 1..Len(processed) :
                                   /\ processed[j].type = type
                                   /\ processed[j].address = a}}

\* C13: in every state, so at any point of any interleaving with the
\* writer, get_oracle for an address and a type gives either nothing or the
\* feed of an update for that address and that type the writer has applied:
\* never the feed of another address, of the other type, or of an update
\* that is still queued or in the writer's hands.
C13_ReaderSeesProcessedFeed ==
    /\ \A a \in PythAccounts :
          \/ get_oracle("PythEma", a) = <<>>
          \/ get_oracle("PythEma", a)[1] \in ProcessedFeeds("PythOracle", a)
    /\ \A a \in SwitchboardAccounts :
          \/ get_oracle("SwitchboardV2", a) = <<>>
          \/ get_oracle("SwitchboardV2", a)[1]
                \in ProcessedFeeds("SwitchboardOracle", a)

C13_Witness ==
    /\ riskPc = "find"
    /\ get_oracle(RiskBank.oracle_setup, RiskBank.oracle_address) # <<>>
    /\ writerPc = "lock"
    /\ writerUpdate.address = RiskBank.oracle_address
    /\ <<writerUpdate.feed>> #
          get_oracle(RiskBank.oracle_setup, RiskBank.oracle_address)

(* ---------------------------------------------------------------------- *)
(* Properties of MarginfiAccountWithBanks                                  *)
(* ---------------------------------------------------------------------- *)
\* the weighted values of the balances of the object under the price ranges
WeightedOf(a, ranges) ==
    [i \in 1..Len(a.balances) |->
        get_weighted_amounts(a.balances[i][2],
                             find_bank_by_mint(a.banks, a.balances[i][1])[1][2],
                             ranges[a.balances[i][1]])]

SumAssets(w) ==
    LET RECURSIVE Sum(_)
        Sum(i) == IF i > Len(w) THEN 0 ELSE w[i].assets + Sum(i + 1)
    IN Sum(1)

SumLiabilities(w) ==
    LET RECURSIVE Sum(_)
        Sum(i) == IF i > Len(w) THEN 0 ELSE w[i].liabilities + Sum(i + 1)
    IN Sum(1)

\* C14: when get_total_weighted_amount returns Ok, the total liabilities it
\* returns are the sum of the weighted liability values of the balances and
\* the total assets are the sum of their weighted asset values.
C14_TotalsAreSums ==
    [][(totals' # totals /\ totals'.returned.status = "ok") =>
          /\ totals'.returned.assets =
                SumAssets(WeightedOf(acc, totals'.ranges))
          /\ totals'.returned.liabilities =
                SumLiabilities(WeightedOf(acc, totals'.ranges))]_vars

\* the step is a call of op
IsCall(op) == accOp'.op = op /\ accOps' = accOps + 1

\* C15: borrow(amount, mint) adds amount / liability_share_value of the
\* bank of the mint to the liability shares of the balance of that mint,
\* which it creates, active, with no asset shares, when there is none; the
\* asset shares of that balance, every other balance and the banks stay as
\* they were.
C15_BorrowAddsLiabilityShares ==
    [][IsCall("borrow") =>
          LET mint == accOp'.mint
              bank == find_bank_by_mint(acc.banks, mint)[1][2]
              shares == Div(accOp'.amount, bank.liability_share_value)
              i == Position(acc.balances, mint)
          IN /\ acc'.banks = acc.banks
             /\ IF i # 0
                THEN acc'.balances =
                        [acc.balances EXCEPT ![i][2].liability_shares = @ + shares]
                ELSE /\ Len(acc'.balances) = Len(acc.balances) + 1
                     /\ SubSeq(acc'.balances, 1, Len(acc.balances)) = acc.balances
                     /\ Last(acc'.balances)[1] = mint
                     /\ Last(acc'.balances)[2].is_active
                     /\ Last(acc'.balances)[2].liability_shares = shares
                     /\ Last(acc'.balances)[2].asset_shares = 0]_vars

\* C16: deposit(amount, mint) adds amount / asset_share_value of the bank of
\* the mint to the asset shares of the balance of that mint; after the call
\* that balance exists and is active, whether it was absent, present and
\* active or present and inactive; its liability shares, every other
\* balance and the banks stay as they were.
C16_DepositAddsAssetShares ==
    [][IsCall("deposit") =>
          LET mint == accOp'.mint
              bank == find_bank_by_mint(acc.banks, mint)[1][2]
              shares == Div(accOp'.amount, bank.asset_share_value)
              i == Position(acc.balances, mint)
          IN /\ acc'.banks = acc.banks
             /\ IF i # 0
                THEN acc'.balances =
                        [acc.balances EXCEPT ![i][2].asset_shares = @ + shares,
                                             ![i][2].is_active = TRUE]
                ELSE /\ Len(acc'.balances) = Len(acc.balances) + 1
                     /\ SubSeq(acc'.balances, 1, Len(acc.balances)) = acc.balances
                     /\ Last(acc'.balances)[1] = mint
                     /\ Last(acc'.balances)[2].is_active
                     /\ Last(acc'.balances)[2].asset_shares = shares
                     /\ Last(acc'.balances)[2].liability_shares = 0]_vars

\* C17: a deposit or a borrow of a non-negative amount lowers neither the
\* asset shares nor the liability shares of any balance.
C17_SharesNeverDecrease ==
    [][(IsCall("deposit") \/ IsCall("borrow")) =>
          /\ Len(acc'.balances) >= Len(acc.balances)
          /\ \A i \in 1..Len(acc.balances) :
                /\ acc'.balances[i][1] = acc.balances[i][1]
                /\ acc'.balances[i][2].asset_shares >=
                      acc.balances[i][2].asset_shares
                /\ acc'.balances[i][2].liability_shares >=
                      acc.balances[i][2].liability_shares]_vars

\* C18: the asset weight and the liability weight of every balance are the
\* initial weights of its bank, as they were captured when the balance was
\* created; no deposit and no borrow leaves a balance with other weights.
C18_WeightsAreBankInitWeights ==
    \A i \in 1..Len(acc.balances) :
        LET balance == acc.balances[i][2]
            bank == get_bank_by_address(acc.banks, balance.bank_address)
        IN bank # <<>> =>
              /\ balance.asset_weight = bank[1].asset_weight_init
              /\ balance.liabilities_weight = bank[1].liability_weight_init

\* C19: after new and after every update_banks, update_balances, deposit
\* and borrow, the bank address of every balance is the address of a bank of
\* the same object, and the mint the balance is stored under is the mint of
\* that bank.
C19_BalancesResolveToBanks ==
    \A i \in 1..Len(acc.balances) :
        LET bank == get_bank_by_address(acc.banks, acc.balances[i][2].bank_address)
        IN /\ bank # <<>>
           /\ bank[1].mint = acc.balances[i][1]

C19_Witness ==
    /\ accOps >= 3
    /\ accOp.op = "borrow"
    /\ Len(acc.balances) >= 2
    /\ \E i \in 1..Len(onChain) : onChain[i].bank_pk = "bank_x"

\* C20: when new or update_balances is given an on-chain account with an
\* active balance in a bank that is not in the bank set, the call fails; no
\* such balance is left out of the balances of an object that is in use.
C20_UnresolvedBankIsFatal ==
    accOp.op \in {"new", "update_balances"} =>
        \/ accPc = "failed"
        \/ \A i \in 1..Len(onChain) :
              onChain[i].active =>
                 \E j \in 1..Len(acc.balances) :
                    acc.balances[j][2].bank_address = onChain[i].bank_pk

(* ---------------------------------------------------------------------- *)
(* Properties of the functions of a bank                                   *)
(* ---------------------------------------------------------------------- *)
\* the bank the last call was about
CalledBank == BankOf(bankCall.mint)

Abs(x) == IF x < 0 THEN -x ELSE x

\* C22: get_borrow_rate returns a rate for every bank, also for a bank with
\* liabilities and no assets: it never panics on a division by zero.
C22_BorrowRateNeverPanics ==
    bankCall.fn = "get_borrow_rate" => ~bankCall.panic

\* the caps the bank of a call is compared under
Caps == {0, 1, 2, 3, 300, 1000000}

WithCap(bank, cap) == [bank EXCEPT !.total_asset_value_init_limit = cap]

\* C23 as stated: for the bank and the amount of a call of
\* get_max_deposit_amount, a smaller cap, zero included, never allows more
\* and a larger cap never allows less than the cap of the bank.
C23_MonotoneInEveryCap ==
    bankCall.fn = "get_max_deposit_amount" =>
        \A cap \in Caps :
            /\ (cap <= CalledBank.total_asset_value_init_limit =>
                   get_max_deposit_amount(WithCap(CalledBank, cap),
                                          bankCall.requested) <= bankCall.value)
            /\ (cap >= CalledBank.total_asset_value_init_limit =>
                   get_max_deposit_amount(WithCap(CalledBank, cap),
                                          bankCall.requested) >= bankCall.value)

\* C23 amended: the allowed amount is non-decreasing in the cap over the
\* caps that are not zero; the cap zero means no cap and allows the whole
\* requested amount, which is at least what any cap allows.
C23_MonotoneInPositiveCap ==
    bankCall.fn = "get_max_deposit_amount" =>
        /\ get_max_deposit_amount(WithCap(CalledBank, 0), bankCall.requested)
              = bankCall.requested
        /\ bankCall.value <= bankCall.requested
        /\ CalledBank.total_asset_value_init_limit # 0 =>
              \A cap \in Caps \ {0} :
                 /\ (cap <= CalledBank.total_asset_value_init_limit =>
                        get_max_deposit_amount(WithCap(CalledBank, cap),
                                               bankCall.requested)
                           <= bankCall.value)
                 /\ (cap >= CalledBank.total_asset_value_init_limit =>
                        get_max_deposit_amount(WithCap(CalledBank, cap),
                                               bankCall.requested)
                           >= bankCall.value)

C23_Witness ==
    /\ bankCall.fn = "get_max_deposit_amount"
    /\ CalledBank.total_asset_value_init_limit = 2
    /\ bankCall.value = 0
    /\ bankCall.requested > 0
    /\ get_max_deposit_amount(WithCap(CalledBank, 1), bankCall.requested) = 0
    /\ get_max_deposit_amount(WithCap(CalledBank, 300), bankCall.requested) > 0

\* the cap of a bank in token units and the amount deposited in it
CapInTokens(bank) ==
    from_num(bank.total_asset_value_init_limit * (10 ^ bank.mint_decimals))

Deposited(bank) == Mul(bank.asset_share_value, bank.total_asset_shares)

Max(a, b) == IF a >= b THEN a ELSE b

\* C24: get_max_deposit_amount returns the requested amount when the cap of
\* the bank is zero, else min(requested, max(0, cap in token units -
\* amount deposited)); with a cap of 1,000,000, 900,000 deposited and
\* 200,000 requested it returns 100,000.
C24_MaxDepositFormula ==
    bankCall.fn = "get_max_deposit_amount" =>
        /\ bankCall.value =
              IF CalledBank.total_asset_value_init_limit = 0
              THEN bankCall.requested
              ELSE Min(bankCall.requested,
                       Max(0, CapInTokens(CalledBank) - Deposited(CalledBank)))
        /\ (/\ CalledBank.total_asset_value_init_limit = 1000000
            /\ CalledBank.mint_decimals = 0
            /\ Deposited(CalledBank) = from_num(900000)
            /\ bankCall.requested = from_num(200000))
              => bankCall.value = from_num(100000)

C24_Witness ==
    /\ bankCall.fn = "get_max_deposit_amount"
    /\ CalledBank.total_asset_value_init_limit = 1000000
    /\ Deposited(CalledBank) = from_num(900000)
    /\ bankCall.requested = from_num(200000)
    /\ bankCall.value = from_num(100000)

\* C25: for every bank and every requested amount that is not negative,
\* get_max_deposit_amount returns an amount that is not negative and not
\* above the requested amount.
C25_MaxDepositWithinRequest ==
    bankCall.fn = "get_max_deposit_amount" =>
        /\ bankCall.value >= 0
        /\ bankCall.value <= bankCall.requested

C25_Witness ==
    /\ bankCall.fn = "get_max_deposit_amount"
    /\ CalledBank.total_asset_value_init_limit = 1
    /\ CalledBank.mint_decimals = 1
    /\ bankCall.requested = 50 * ONE
    /\ bankCall.value = 6 * ONE

\* the rates of the three candidates, in the order of the loop
CandidateRates ==
    [i \in 1..Len(BorrowMints) |-> get_borrow_rate(BankOf(BorrowMints[i]))]

\* C26: get_best_bank_for_borrow returns the first candidate, in the order
\* USDC, USDT, UXD, whose bank has the lowest borrow rate; with plateau
\* rates 0.06, 0.02 and 0.09 at the optimal utilization it returns USDT.
C26_BestIsFirstLowest ==
    bankCall.fn = "get_best_bank_for_borrow" =>
        /\ ~bankCall.panic
        /\ \E i \in 1..Len(BorrowMints) :
              /\ bankCall.mint = BorrowMints[i]
              /\ \A j \in 1..Len(BorrowMints) :
                    CandidateRates[i].value <= CandidateRates[j].value
              /\ \A j \in 1..(i - 1) :
                    CandidateRates[j].value > CandidateRates[i].value
        /\ (/\ CandidateRates[1] = Returns((6 * RATE_ONE) \div 100)
            /\ CandidateRates[2] = Returns((2 * RATE_ONE) \div 100)
            /\ CandidateRates[3] = Returns((9 * RATE_ONE) \div 100))
              => bankCall.mint = "usdt"

\* the utilization of a bank, total_liability_shares / total_asset_shares
Utilization(bank) ==
    RDiv(bank.total_liability_shares, bank.total_asset_shares)

\* C27: get_borrow_rate returns 0 when nothing is borrowed; at or below the
\* optimal utilization it returns utilization / optimal * plateau; above
\* it, plateau + (utilization - optimal) / (1 - optimal) * (max - plateau),
\* each to within two steps of the resolution; for a utilization of 50 %,
\* an optimal of 80 % and a plateau of 0.10 it returns 0.0625.
C27_BorrowRateCurve ==
    (bankCall.fn = "get_borrow_rate" /\ ~bankCall.panic) =>
        LET bank == CalledBank
            optimal == bank.optimal_utilization_rate
            plateau == bank.plateau_interest_rate
        IN /\ bank.total_liability_shares = 0 => bankCall.value = 0
           /\ (bank.total_liability_shares # 0
                  /\ Utilization(bank) <= optimal) =>
                 Abs(bankCall.value * optimal - Utilization(bank) * plateau)
                    <= 2 * optimal
           /\ (bank.total_liability_shares # 0
                  /\ Utilization(bank) > optimal) =>
                 Abs((bankCall.value - plateau) * (RATE_ONE - optimal)
                       - (Utilization(bank) - optimal)
                            * (bank.max_interest_rate - plateau))
                    <= 2 * (RATE_ONE - optimal)
           /\ (/\ bank.total_liability_shares # 0
               /\ Utilization(bank) = RATE_ONE \div 2
               /\ optimal = (8 * RATE_ONE) \div 10
               /\ plateau = RATE_ONE \div 10)
                 => Abs(bankCall.value - (RATE_ONE \div 16)) <= 2

C27_Witness ==
    /\ bankCall.fn = "get_borrow_rate"
    /\ CalledBank.total_liability_shares # 0
    /\ CalledBank.total_asset_shares # 0
    /\ Utilization(CalledBank) = RATE_ONE \div 2
    /\ CalledBank.optimal_utilization_rate = (8 * RATE_ONE) \div 10
    /\ CalledBank.plateau_interest_rate = RATE_ONE \div 10
    /\ bankCall.value > 0
    /\ \E mint \in Range(BorrowMints) :
          /\ BankOf(mint).total_asset_shares # 0
          /\ Utilization(BankOf(mint)) > BankOf(mint).optimal_utilization_rate

\* the rate of a bank at the utilization u, whatever its shares are
RateAt(bank, u) ==
    get_borrow_rate([bank EXCEPT !.total_asset_shares = RATE_ONE,
                                 !.total_liability_shares = u]).value

\* the distance that counts as small: 2^-8
Epsilon == RATE_ONE \div 256

\* C28: for the bank of a call of get_borrow_rate, the rate at the optimal
\* utilization is the plateau rate, and the rates one step of the
\* resolution below and one step above it are within Epsilon of it.
C28_ContinuousAtOptimal ==
    bankCall.fn = "get_borrow_rate" =>
        LET bank == CalledBank
            optimal == bank.optimal_utilization_rate
        IN /\ RateAt(bank, optimal) = bank.plateau_interest_rate
           /\ Abs(RateAt(bank, optimal - 1) - bank.plateau_interest_rate)
                 < Epsilon
           /\ Abs(RateAt(bank, optimal + 1) - bank.plateau_interest_rate)
                 < Epsilon

C28_Witness ==
    /\ bankCall.fn = "get_borrow_rate"
    /\ bankCall.mint = "uxd"
    /\ \A mint \in Range(BorrowMints) :
          /\ BankOf(mint).total_asset_shares = RATE_ONE
          /\ BankOf(mint).optimal_utilization_rate = RATE_ONE \div 2
    /\ BankOf("usdc").total_liability_shares = (RATE_ONE \div 2) - 1
    /\ BankOf("usdt").total_liability_shares = RATE_ONE \div 2
    /\ BankOf("uxd").total_liability_shares = (RATE_ONE \div 2) + 1
    /\ bankCall.value = RateAt(CalledBank, (RATE_ONE \div 2) + 1)

(* ---------------------------------------------------------------------- *)
(* Properties of the balances and the bank set of the account              *)
(* ---------------------------------------------------------------------- *)
\* the balances of the account that are not active
InactiveBalances ==
    {acc.balances[i][2] : i \in {n \in 1..Len(acc.balances) :
                                    ~acc.balances[n][2].is_active}}

\* C29: for a balance that is not active, whatever shares it holds,
\* get_weighted_amounts returns Ok((0, 0)) with every bank of the account
\* and every price range, the one that cannot be computed included.
C29_InactiveBalanceWeighsNothing ==
    \A balance \in InactiveBalances :
       \A i \in 1..Len(acc.banks), range \in PriceRanges, shares \in Amounts :
          get_weighted_amounts(
              [balance EXCEPT !.asset_shares = shares,
                              !.liability_shares = shares],
              acc.banks[i][2], range)
             = [ok |-> TRUE, assets |-> 0, liabilities |-> 0]

C29_Witness ==
    /\ accPc = "ready"
    /\ InactiveBalances # {}
    /\ totals.returned.status = "ok"
    /\ totals.returned = get_total_weighted_amount(acc, totals.ranges)
    /\ \E i \in 1..Len(acc.balances) :
          /\ ~acc.balances[i][2].is_active
          /\ ~totals.ranges[acc.balances[i][1]].ok

\* C30: after update_banks with a refreshed list on an account that holds
\* banks, the bank set holds one snapshot per bank address, and
\* get_bank_by_address and get_bank_by_mint return the refreshed snapshot.
C30_RefreshReplacesBanks ==
    accOp.op = "update_banks" =>
        \A i \in 1..Len(RefreshedBanks) :
           /\ Cardinality({n \in 1..Len(acc.banks) :
                              acc.banks[n][1] = RefreshedBanks[i][1]}) = 1
           /\ get_bank_by_address(acc.banks, RefreshedBanks[i][1])
                 = <<MarginfiBank_from(RefreshedBanks[i][2])>>
           /\ find_bank_by_mint(acc.banks, RefreshedBanks[i][2].mint)
                 = <<<<RefreshedBanks[i][1],
                       MarginfiBank_from(RefreshedBanks[i][2])>>>>

(* ---------------------------------------------------------------------- *)
(* Properties of the creation of the first transaction                     *)
(* ---------------------------------------------------------------------- *)
\* C21: when get_total_weighted_amount returned an Err, start has returned
\* that error and has sent no transaction and called
\* force_send_instructions for no step.
C21_RiskErrorStopsStart ==
    risk = "err" =>
        /\ step = "failed"
        /\ startResult = "UnableToParsePythOracle"
        /\ borrowed_mint = "none"
        /\ pc = "idle"
        /\ tx = NoTx
        /\ submitted = <<>>
        /\ chain = <<>>
        /\ callLog = <<>>
        /\ sentSteps = {}

C21_Witness ==
    /\ risk = "err"
    /\ step = "failed"
    /\ startResult = "UnableToParsePythOracle"

(* ---------------------------------------------------------------------- *)
(* Claims C31 to C37: reports, build failures, the order of the steps      *)
(* ---------------------------------------------------------------------- *)
\* C31: when force_send_instructions has returned the outcome of a cycle
\* (Success or on-chain Error; the loop has no attempt limit to exhaust),
\* the last line it printed names that outcome and the signature of the
\* transaction the outcome is about, which is the last one submitted
C31_OutcomeReported ==
    cause = "cycle" =>
        /\ outcome.kind \in {"Success", "Error"}
        /\ (outcome.kind = "Success") = (result = "Ok")
        /\ printed # <<>>
        /\ Last(printed) = [kind |-> outcome.kind, sig |-> outcome.sig]
        /\ submitted # <<>>
        /\ Last(submitted).tx.id = outcome.sig

C31_Witness ==
    /\ cause = "cycle"
    /\ outcome.kind = "Error"
    /\ Len(submitted) >= 2
    /\ Len(printed) >= 3

\* C32: a build either binds a new transaction or ends the call at once
\* with ClientTransactionError: nothing is submitted for that attempt, no
\* transaction is built after the failure, and start fails with that error
C32_BuildFailureEndsCall ==
    /\ [](cause = "build" =>
            /\ pc \in {"returned", "done"}
            /\ result = "ClientTransactionError"
            /\ \A i \in 1..Len(submitted) : submitted[i].attempt < retries
            /\ nextTxId = tx.id + 1
            /\ (pc = "done" => /\ step = "failed"
                               /\ startResult = "ClientTransactionError"))
    /\ [][(/\ pc \in {"build_first", "loop_head"}
           /\ (pc = "loop_head" => retries % 2 = 0))
          => \/ pc' = pc
             \/ /\ tx'.id = nextTxId
                /\ nextTxId' = nextTxId + 1
                /\ pc' \in {"loop_head", "send"}
             \/ /\ pc' = "returned"
                /\ cause' = "build"
                /\ result' = "ClientTransactionError"
                /\ submitted' = submitted
                /\ tx' = tx
                /\ nextTxId' = nextTxId]_vars

C32_Witness ==
    /\ cause = "build"
    /\ retries = 2
    /\ Len(submitted) = 2
    /\ pc = "done"

\* the steps start has called force_send_instructions for, in call order
CalledSteps == [i \in 1..Len(ixAmounts) |-> ixAmounts[i][1]]

\* C33: the calls of start follow the order deposit+borrow, swap, pool
\* deposit, farm stake (the swap may be absent, nothing else); a step is
\* called, and so submitted, only after the call before it returned Ok,
\* which it does only for a transaction confirmed with Success; the amount
\* of the farm stake is the LP-token change parsed from the pool deposit
C33_StepsInOrder ==
    /\ sentSteps \subseteq Range(CalledSteps)
    /\ CalledSteps # <<>> => CalledSteps[1] = "deposit_borrow"
    /\ \A i \in 2..Len(CalledSteps) :
          /\ StepIndex(CalledSteps[i - 1]) < StepIndex(CalledSteps[i])
          /\ CalledSteps[i] = "swap" => CalledSteps[i - 1] = "deposit_borrow"
          /\ CalledSteps[i] = "pool_deposit" =>
                CalledSteps[i - 1] \in {"deposit_borrow", "swap"}
          /\ CalledSteps[i] = "farm_stake" => CalledSteps[i - 1] = "pool_deposit"
          /\ callLog[i - 1] = <<CalledSteps[i - 1], "Ok">>
          /\ CalledSteps[i - 1] \in sentSteps
    /\ result = "Ok" =>
          /\ outcome.kind = "Success"
          /\ chain[outcome.sig] = "ok"
          /\ outcome.sig = Last(submitted).tx.id
    /\ \A i \in 1..Len(ixAmounts) :
          ixAmounts[i][1] = "farm_stake" =>
              <<"pool_deposit", <<ixAmounts[i][2]>>>> \in Range(tokenChanges)

C33_Witness ==
    /\ CalledSteps = StepOrder
    /\ sentSteps = Range(StepOrder)
    /\ ixAmounts[4][2] = 3
    /\ step = "sleeping"

\* C34: a swap is submitted only when the borrowed mint is not USDC, and
\* then always before the pool deposit; the pool is given the USDC change
\* parsed from the swap when there was one, else the borrowed amount
C34_SwapIffNotUsdc ==
    /\ "swap" \in sentSteps => borrowed_mint # "usdc"
    /\ \A i \in 1..Len(ixAmounts) :
          ixAmounts[i][1] = "pool_deposit" =>
              /\ ("swap" \in sentSteps) = (borrowed_mint # "usdc")
              /\ IF borrowed_mint # "usdc"
                   THEN <<"swap", <<ixAmounts[i][2]>>>> \in Range(tokenChanges)
                   ELSE /\ ixAmounts[i][2] = borrowed_amount
                        /\ \A j \in 1..Len(tokenChanges) :
                              tokenChanges[j][1] # "swap"
                        /\ "swap" \notin Range(CalledSteps)

C34_Witness ==
    /\ borrowed_mint = "uxd"
    /\ {"swap", "pool_deposit"} \subseteq sentSteps
    /\ tokenChanges[1] = <<"swap", <<3>>>>
    /\ ixAmounts[3] = <<"pool_deposit", 3>>
    /\ borrowed_amount > 3

\* every submit-and-confirm cycle of the call so far ended in Timeout
OnlyTimeouts == \A i \in 1..Len(cycles) : cycles[i] = "Timeout"

\* C36: a Timeout never ends force_send_instructions, whatever the number
\* of attempts: the step after it is the next turn of the loop, with
\* retries one higher and nothing waited for, and that turn submits again;
\* a call whose cycles all timed out has returned, if at all, only through
\* the error of a build or of an RPC call, never for the attempts made
C36_TimeoutNeverEndsCall ==
    /\ [](cause # "exhausted")
    /\ []((cause # "none" /\ OnlyTimeouts) => cause \in {"build", "rpc"})
    /\ [][(pc = "match" /\ outcome.kind = "Timeout" /\ pc' # pc)
          => /\ pc' = "loop_head"
             /\ retries' = retries + 1
             /\ result' = "none"]_vars
    /\ [][(pc = "send" /\ pc' # pc /\ pc' # "returned")
          => /\ pc' = "poll_head"
             /\ submitted' = Append(submitted, [tx |-> tx, attempt |-> retries])
             /\ elapsed' = 0]_vars

C36_Witness ==
    /\ retries = MaxRetries
    /\ Len(cycles) = MaxRetries + 1
    /\ OnlyTimeouts
    /\ Len(submitted) = MaxRetries + 1
    /\ pc = "match"
    /\ result = "none"

\* C37: of the transactions one call of force_send_instructions submitted,
\* at most one is executed by the chain
C37_AtMostOneExecuted ==
    Cardinality({id \in DOMAIN chain : chain[id] = "ok"}) <= 1

(* ---------------------------------------------------------------------- *)
(* Claims C38, C39, C35: the cache partitions and the tasks of main        *)
(* ---------------------------------------------------------------------- *)
\* no address occurs twice in a Vec<(Pubkey, feed)>
OneEntryPerAddress(oracles) ==
    \A i, j \in 1..Len(oracles) : oracles[i][1] = oracles[j][1] => i = j

\* the addresses saved in a Vec<(Pubkey, feed)>
Addresses(oracles) == {oracles[i][1] : i \in 1..Len(oracles)}

\* C38: each partition of the cache holds at most one entry per oracle
\* address, and only addresses that are the oracle of a tracked bank of
\* the partition's oracle type
C38_OneEntryPerWatchedOracle ==
    /\ OneEntryPerAddress(pyth_oracles)
    /\ OneEntryPerAddress(switchboard_oracles)
    /\ Addresses(pyth_oracles) \subseteq Range(WatchedOracles("PythEma"))
    /\ Addresses(switchboard_oracles)
          \subseteq Range(WatchedOracles("SwitchboardV2"))

C38_Witness ==
    /\ Len(processed) = 3
    /\ processed[1].address = processed[2].address
    /\ processed[1].feed # processed[2].feed
    /\ Len(pyth_oracles) = 1
    /\ pyth_oracles[1][2] = processed[2].feed
    /\ Len(switchboard_oracles) = 1

\* C39: a subscription task leaves its stream only to subscribe again, and
\* it ends only from a subscribe call, with the error of that call
C39_EndsOnlyOnFailedSubscribe ==
    [][/\ (pythSubPc = "stream" /\ pythSubPc' # "stream")
            => pythSubPc' = "subscribe"
       /\ (pythSubPc' # pythSubPc /\ pythSubPc' \notin {"subscribe", "stream"})
            => (pythSubPc = "subscribe" /\ pythSubPc' = "failed")
       /\ (switchboardSubPc = "stream" /\ switchboardSubPc' # "stream")
            => switchboardSubPc' = "subscribe"
       /\ (/\ switchboardSubPc' # switchboardSubPc
           /\ switchboardSubPc' \notin {"subscribe", "stream"})
            => (switchboardSubPc = "subscribe" /\ switchboardSubPc' = "failed")
      ]_vars

\* the tasks of main.rs:120-136 that have finished, with a result, an error
\* or a panic; the writer has no way to finish while main holds a sender
EndedTasks ==
    (IF riskPc \in {"failed", "panicked"} THEN {"strategy"} ELSE {})
      \cup (IF websocketPc = "ended" THEN {"websocket"} ELSE {})
      \cup (IF pythSubPc \in {"failed", "panicked"} THEN {"pyth"} ELSE {})
      \cup (IF switchboardSubPc \in {"failed", "panicked"}
            THEN {"switchboard"} ELSE {})

====
